---- MODULE Spec2Model ----
(***************************************************************************)
(* git-smart-commit: the provider cooldown store (src/src/state.rs), the   *)
(* fallback engine (src/src/ai/service.rs) and the history rewrite         *)
(* workflows (src/src/app.rs, src/src/git/service.rs).                     *)
(*                                                                         *)
(* Five specifications share the variables:                                *)
(*   SpecState     the State API driven call by call, as its unit tests do *)
(*   SpecFallback  one AiService: from_config, then generate_commit_message*)
(*   SpecDiff      the diff filters of GitService applied to diff texts    *)
(*   SpecPrefix    App::get_prefix_mode_internal under a configuration     *)
(*   Spec          one invocation of the program on a repository           *)
(***************************************************************************)
EXTENDS Integers, Sequences, FiniteSets, TLC

(***************************************************************************)
(* Bounds of the model.                                                    *)
(***************************************************************************)
\* longest configured provider list that is enumerated
MaxProviders == 3
\* the non-zero cooldown window (minutes) that is enumerated beside 0
CooldownMinutes == 1
\* longest provider list a configuration file gives the fallback engine
\* (an empty or all-unknown list gives the default order of three)
MaxConfigured == 2

(***************************************************************************)
(* Strings and provider names.                                             *)
(***************************************************************************)
\* the keys of the closed provider set: AiProvider::command / config_key
ProviderKeys == {"gemini", "codex", "claude"}

\* provider names as a configuration file may spell them
ConfigNames == {"gemini", "GEMINI", "codex", "claude"}

\* str::to_lowercase on the names above
to_lowercase(s) == IF s = "GEMINI" THEN "gemini" ELSE s

\* sequences over S of length at most n
SeqUpTo(S, n) == UNION {[1..k -> S] : k \in 0..n}

\* number of occurrences of x in the sequence s
Count(s, x) == Cardinality({i \in DOMAIN s : s[i] = x})

(***************************************************************************)
(* Clock.  State::now() reads the system clock in whole seconds; the      *)
(* model lets the clock stand at the window's boundary values.            *)
(***************************************************************************)
SecondsPerMinute == 60

TimePoints ==
    {0, CooldownMinutes * SecondsPerMinute - 1,
        CooldownMinutes * SecondsPerMinute}

Windows == {0, CooldownMinutes}

VARIABLES
    now,        \* the system clock, seconds since the epoch
    st,         \* SpecState: State.provider_failures, key -> failed_at
    op,         \* SpecState: the last State call, its arguments and result
    file,       \* ~/.git-sc-state as persisted: key -> failed_at
    config_providers,   \* Config.providers while the Config is alive
    cooldown_minutes,   \* Config.provider_cooldown_minutes
    providers,  \* AiService.providers: the fallback order, provider keys
    which,      \* what `which <command>` has answered so far: key -> BOOLEAN
    pc,         \* where the run stands
    idx,        \* generate_commit_message: position in providers
    pending,    \* the Err of the call_provider that just failed
    last_error, \* generate_commit_message: last_error
    result,     \* what generate_commit_message returned
    calls,      \* history: positions of providers whose process was invoked
    last_call,  \* history: position and outcome of the latest invocation
    failed,     \* history: key -> clock when its latest failure was recorded
    expired,    \* history: keys of failed whose entry was expired at a prune
    io_ok,      \* history: every State::load and save of the run succeeded
    cli,        \* Spec: the parsed command line
    platform,   \* Spec: the platform the binary was built for
    repo,       \* Spec: the git repository
    repo0,      \* history: the repository when App::run was entered
    prefix_mode,    \* the workflow's local prefix_mode
    merge_base, \* run_squash's local merge_base (commits below it)
    request,    \* the recent_commits and prefix_type given to the generation
    message,    \* the workflow's local message, once generated
    exit,       \* what App::new or App::run returned
    git_log,    \* history: the mutating git commands run, in order
    diff,       \* the filtered diff text: the workflow's local diff
    stdout,     \* what the process has written to standard output
    stderr,     \* what the process has written to standard error
    code,       \* the exit code of the process, once it has exited
    raw,        \* SpecDiff: the diff text a filter is given
    ignore,     \* SpecDiff: the patterns of .git-sc-ignore, None without
    filter,     \* SpecDiff: the filter that produced diff from raw
    setup,      \* SpecPrefix: remote URL, branch, prefix_scripts and rules
    script_runs,    \* history: the prefix scripts invoked, in order
    stdin,      \* the line read at the confirmation prompt, None if none
    inv,        \* the invocations that run side by side, None if one
    rules_seen  \* history: the number of prefix rules consulted

apiVars == <<st, op>>
aiVars == <<file, config_providers, cooldown_minutes, providers, which, pc,
            idx, pending, last_error, result, calls, last_call, failed,
            expired, io_ok>>
fnVars == <<raw, ignore, filter, setup, script_runs, rules_seen>>
ioVars == <<stdout, stderr, code>>
appVars == <<cli, platform, repo, repo0, prefix_mode, merge_base, request,
             message, exit, git_log, diff, fnVars>>
vars == <<now, st, op, file, config_providers, cooldown_minutes, providers,
          which, pc, idx, pending, last_error, result, calls, last_call,
          failed, expired, io_ok, cli, platform, repo, repo0, prefix_mode,
          merge_base, request, message, exit, git_log, diff, stdout, stderr,
          code, raw, ignore, filter, setup, script_runs, rules_seen, stdin,
          inv>>

\* seconds a timestamp t lies back on the unsigned clock (0 for one ahead)
Age(t) == IF now >= t THEN now - t ELSE 0

(***************************************************************************)
(* State (src/src/state.rs).  A store is a function key -> failed_at.      *)
(***************************************************************************)
EmptyStore == [k \in {} |-> 0]

\* now.saturating_sub(failed_at)
saturating_sub(a, b) == IF a >= b THEN a - b ELSE 0

\* State::record_failure
record_failure(s, provider) ==
    [k \in DOMAIN s \cup {to_lowercase(provider)} |->
        IF k = to_lowercase(provider) THEN now ELSE s[k]]

get_demoted_providers_off_by_one(s, minutes) ==
    {k \in DOMAIN s :
        saturating_sub(now, s[k]) <= minutes * SecondsPerMinute}

\* State::get_demoted_providers (the Vec is only asked `contains`)
get_demoted_providers(s, minutes) ==
    {k \in DOMAIN s :
        saturating_sub(now, s[k]) < minutes * SecondsPerMinute}

\* a cleanup that keeps the entry that is exactly as old as the window
cleanup_expired_keeps_boundary(s, minutes) ==
    [k \in {x \in DOMAIN s :
              saturating_sub(now, s[x]) <= minutes * SecondsPerMinute}
        |-> s[k]]

\* State::cleanup_expired
cleanup_expired(s, minutes) ==
    [k \in {x \in DOMAIN s :
              saturating_sub(now, s[x]) < minutes * SecondsPerMinute}
        |-> s[k]]

reorder_providers_demoted_first(s, names, minutes) ==
    LET demoted == get_demoted_providers(s, minutes)
    IN  SelectSeq(names, LAMBDA p : to_lowercase(p) \in demoted)
        \o SelectSeq(names, LAMBDA p : to_lowercase(p) \notin demoted)

\* State::reorder_providers
reorder_providers(s, names, minutes) ==
    LET demoted == get_demoted_providers(s, minutes)
        normal == SelectSeq(names, LAMBDA p : to_lowercase(p) \notin demoted)
        demoted_providers ==
            SelectSeq(names, LAMBDA p : to_lowercase(p) \in demoted)
    IN  normal \o demoted_providers

(***************************************************************************)
(* SpecState: the State API, one call per step.                            *)
(***************************************************************************)
NoOp == [name |-> "none", arg |-> <<>>, w |-> 0, out |-> <<>>, set |-> {}]

None == [kind |-> "None"]
Some(v) == [kind |-> "Some", value |-> v]

\* the fallback engine before it is constructed
AiIdle ==
    /\ file = EmptyStore
    /\ config_providers = <<>>
    /\ cooldown_minutes = 0
    /\ providers = <<>>
    /\ which = EmptyStore
    /\ pc = "new"
    /\ idx = 0
    /\ pending = None
    /\ last_error = None
    /\ result = None
    /\ calls = {}
    /\ last_call = None
    /\ failed = EmptyStore
    /\ expired = {}
    /\ io_ok = TRUE

\* no command line has been parsed and no repository is looked at
AppIdle ==
    /\ cli = None
    /\ platform = "unknown"
    /\ repo = None
    /\ repo0 = None
    /\ prefix_mode = None
    /\ merge_base = 0
    /\ request = None
    /\ message = <<>>
    /\ exit = None
    /\ git_log = <<>>
    /\ diff = <<>>

\* nothing has been written and the process has not exited
IoIdle ==
    /\ stdout = <<>>
    /\ stderr = <<>>
    /\ code = None

\* no filter and no prefix resolution is being exercised
FnIdle ==
    /\ raw = <<>>
    /\ ignore = None
    /\ filter = [name |-> "none", round |-> 1]
    /\ setup = None
    /\ script_runs = <<>>
    /\ rules_seen = 0

InitState ==
    /\ now \in TimePoints
    /\ st = EmptyStore
    /\ op = NoOp
    /\ stdin = None
    /\ inv = None
    /\ AiIdle
    /\ AppIdle
    /\ IoIdle
    /\ FnIdle

\* the system clock moves (forward, or back when it is reset)
SetClock ==
    /\ op = NoOp
    /\ \E t \in TimePoints \ {now} : now' = t
    /\ UNCHANGED <<st, op, aiVars, appVars, ioVars, stdin, inv>>

\* the call returns; its caller drops the result
Return ==
    /\ op # NoOp
    /\ op' = NoOp
    /\ UNCHANGED <<now, st, aiVars, appVars, ioVars, stdin, inv>>

RecordFailure ==
    \E p \in ProviderKeys \cup {"GEMINI"} :
        /\ op = NoOp
        /\ st' = record_failure(st, p)
        /\ op' = [NoOp EXCEPT !.name = "record_failure", !.arg = <<p>>]
        /\ UNCHANGED <<now, aiVars, appVars, ioVars, stdin, inv>>

GetDemotedProviders ==
    \E w \in Windows :
        /\ op = NoOp
        /\ op' = [NoOp EXCEPT !.name = "get_demoted_providers", !.w = w,
                              !.set = get_demoted_providers(st, w)]
        /\ UNCHANGED <<now, st, aiVars, appVars, ioVars, stdin, inv>>

CleanupExpired ==
    \E w \in Windows :
        /\ op = NoOp
        /\ st' = cleanup_expired(st, w)
        /\ op' = [NoOp EXCEPT !.name = "cleanup_expired", !.w = w]
        /\ UNCHANGED <<now, aiVars, appVars, ioVars, stdin, inv>>

ReorderProviders ==
    \E names \in SeqUpTo(ConfigNames, MaxProviders), w \in Windows :
        /\ op = NoOp
        /\ op' = [NoOp EXCEPT !.name = "reorder_providers", !.arg = names,
                              !.w = w,
                              !.out = reorder_providers(st, names, w)]
        /\ UNCHANGED <<now, st, aiVars, appVars, ioVars, stdin, inv>>

NextState ==
    \/ SetClock
    \/ RecordFailure
    \/ GetDemotedProviders
    \/ CleanupExpired
    \/ ReorderProviders
    \/ Return

SpecState == InitState /\ [][NextState]_vars

(***************************************************************************)
(* Claims on the State API.                                                *)
(***************************************************************************)
\* the claims' notion of "currently demoted" for a configured name p under
\* window w: an entry for the lowercase key whose age in seconds (clock
\* seconds are unsigned: an entry from the future has age 0) is below w*60
CurrentlyDemoted(p, w) ==
    /\ to_lowercase(p) \in DOMAIN st
    /\ Age(st[to_lowercase(p)]) < w * 60

\* C1: reorder_providers returns a stable partition of its input: the
\* providers that are not currently demoted in their configured relative
\* order, then the currently demoted ones in theirs; the result is a
\* permutation of the input.
C1_StablePartition ==
    op.name = "reorder_providers" =>
        LET in == op.arg
            out == op.out
            D(p) == CurrentlyDemoted(p, op.w)
            N(p) == ~CurrentlyDemoted(p, op.w)
        IN  /\ Len(out) = Len(in)
            /\ \A x \in ConfigNames : Count(out, x) = Count(in, x)
            /\ \A i, j \in DOMAIN out : (i < j /\ D(out[i])) => D(out[j])
            /\ SelectSeq(out, N) = SelectSeq(in, N)
            /\ SelectSeq(out, D) = SelectSeq(in, D)

\* C1 witness: [A, B, C] with a failure of B inside the window gives [A, C, B]
C1_Witness ==
    /\ op.name = "reorder_providers"
    /\ op.arg = <<"gemini", "codex", "claude">>
    /\ op.w = CooldownMinutes
    /\ DOMAIN st = {"codex"}
    /\ op.out = <<"gemini", "claude", "codex">>

\* C5: a provider is currently demoted iff the store holds an entry for its
\* lowercase key with now - failedAt < cooldown_minutes*60; a failure older
\* than the window leaves the configured order unchanged, and a window of 0
\* demotes no provider whatever the store holds.
C5_DemotedIff ==
    /\ op.name = "get_demoted_providers" =>
        /\ \A k \in ProviderKeys : k \in op.set <=> CurrentlyDemoted(k, op.w)
        /\ op.set \subseteq ProviderKeys
        /\ op.w = 0 => op.set = {}
    /\ op.name = "reorder_providers" =>
        /\ (\A i \in DOMAIN op.arg : ~CurrentlyDemoted(op.arg[i], op.w))
              => op.out = op.arg
        /\ op.w = 0 => op.out = op.arg

\* C5 witness: a stored failure exactly as old as the window is not demoted
\* and the order [A, B, C] comes back unchanged
C5_Witness ==
    /\ op.name = "reorder_providers"
    /\ op.arg = <<"gemini", "codex", "claude">>
    /\ op.w = CooldownMinutes
    /\ "codex" \in DOMAIN st
    /\ now - st["codex"] = CooldownMinutes * 60
    /\ op.out = op.arg

\* C31: the store changes in a call of record_failure and in a call of
\* cleanup_expired only.  record_failure(p) sets the entry of the lowercase
\* key of p to the current time and leaves the other entries as they are,
\* so that there is one entry per provider at most; cleanup_expired(w)
\* leaves exactly the entries whose age is below w*60 seconds, unchanged.
C31_StoreChanges ==
    [][ IF op'.name = "record_failure"
        THEN LET key == to_lowercase(op'.arg[1])
             IN  /\ DOMAIN st' = DOMAIN st \cup {key}
                 /\ st'[key] = now
                 /\ \A k \in DOMAIN st \ {key} : st'[k] = st[k]
                 /\ DOMAIN st' \subseteq ProviderKeys
        ELSE IF op'.name = "cleanup_expired"
        THEN /\ DOMAIN st' = {k \in DOMAIN st : Age(st[k]) < op'.w * 60}
             /\ \A k \in DOMAIN st' : st'[k] = st[k]
             /\ \A k \in DOMAIN st' : Age(st'[k]) < op'.w * 60
        ELSE st' = st ]_vars

\* C31 witness: a cleanup with the window of one minute has just run, one
\* minute after the clock's start: the entry of codex, recorded one second
\* before, is still there, and none of another provider is
C31_Witness ==
    /\ op.name = "cleanup_expired"
    /\ op.w = CooldownMinutes
    /\ now = CooldownMinutes * 60
    /\ DOMAIN st = {"codex"}
    /\ st["codex"] = CooldownMinutes * 60 - 1

(***************************************************************************)
(* AiService (src/src/ai/service.rs): the fallback engine.                 *)
(***************************************************************************)
\* names a configuration may list: the known ones and an unknown one
ConfigStrings == ConfigNames \cup {"foo"}

\* the clock value of the entries an earlier run has left in the file
StoredTimes == {0}

\* why call_provider returns Err: the process could not be run to its end
\* (spawn, write of the prompt, wait), it exited non-zero, or its output was
\* empty after clean_message
FailureCauses == {"spawn", "exit", "empty"}

\* cleaned, non-empty messages a backend may print, as character sequences:
\* "f: x" (a type prefix and a body), "x" (no prefix), "f:" (a bare prefix)
CleanMessages ==
    {<<"f", ":", " ", "x">>, <<"x">>, <<"f", ":">>}

\* AiProvider::from_str
from_str(s) ==
    IF to_lowercase(s) \in ProviderKeys THEN <<to_lowercase(s)>> ELSE <<>>

\* Iterator::filter_map(AiProvider::from_str) over a list of strings
RECURSIVE filter_map_from_str(_)
filter_map_from_str(strings) ==
    IF strings = <<>> THEN <<>>
    ELSE from_str(Head(strings)) \o filter_map_from_str(Tail(strings))

\* the default fallback order of AiService::new and of from_config
DefaultProviders == <<"gemini", "codex", "claude">>

\* AiService::from_config, given whether State::load succeeded
from_config(strings, window, load_ok) ==
    LET reordered_strings ==
            IF load_ok THEN reorder_providers(file, strings, window)
            ELSE strings
        known == filter_map_from_str(reordered_strings)
    IN  IF known = <<>> THEN DefaultProviders ELSE known

\* AppError values
AiProviderError(key, cause) ==
    [kind |-> "AiProviderError", by |-> key, cause |-> cause]
NoAiProviderInstalled == [kind |-> "NoAiProviderInstalled"]

Ok(text, pos) == [kind |-> "Ok", message |-> text, by |-> pos]
Err(e) == [kind |-> "Err", error |-> e]

\* Option::unwrap_or
unwrap_or(opt, default) == IF opt = None THEN default ELSE opt

\* AiService::is_installed: `which` answers the same for a command each
\* time it is asked during a run
is_installed_answers(key) ==
    IF key \in DOMAIN which THEN {which[key]} ELSE BOOLEAN

remember(key, answer) ==
    [k \in DOMAIN which \cup {key} |-> IF k = key THEN answer ELSE which[k]]

record_provider_failure_no_cleanup(key, load_ok, save) ==
    IF ~load_ok THEN file
    ELSE IF save = "ok" THEN record_failure(file, key)
    ELSE IF save = "truncated" THEN EmptyStore
    ELSE file

\* AiService::record_provider_failure: the file it leaves behind.  A failed
\* load skips everything; a failed save is ignored and leaves the old file
\* or, when the write broke off after truncating, an empty one.
record_provider_failure(key, load_ok, save) ==
    IF ~load_ok THEN file
    ELSE IF save = "ok"
         THEN cleanup_expired(record_failure(file, key), cooldown_minutes)
    ELSE IF save = "truncated" THEN EmptyStore
    ELSE file

InitFallback ==
    /\ now \in TimePoints
    /\ st = EmptyStore
    /\ op = NoOp
    /\ stdin = None
    /\ inv = None
    /\ file \in UNION {[K -> StoredTimes] : K \in SUBSET ProviderKeys}
    /\ config_providers = <<>>
    /\ cooldown_minutes = 0
    /\ providers = <<>>
    /\ which = EmptyStore
    /\ pc = "new"
    /\ idx = 0
    /\ pending = None
    /\ last_error = None
    /\ result = None
    /\ calls = {}
    /\ last_call = None
    /\ failed = EmptyStore
    /\ expired = {}
    /\ io_ok = TRUE
    /\ AppIdle
    /\ IoIdle
    /\ FnIdle

\* println! and eprintln!: a line is written.  A line is kept as what it
\* says: a progress or diagnostic line by its wording, the commit message by
\* its text
Progress(what) == [line |-> what, text |-> <<>>]
Shown(text) == [line |-> "message", text |-> text]
println(out, line) == Append(out, line)

\* whether the global configuration file read by Config::load_global has a
\* syntax error; one is met by the runs outside a repository
SyntaxErrors == IF cli # None /\ repo = None THEN BOOLEAN ELSE {FALSE}

\* App::new: Config::load, which warns of a syntax error on standard error
\* and goes on with the defaults, then AiService::from_config
FromConfigWith(lists, windows) ==
    /\ pc = "new"
    /\ \E strings \in lists, window \in windows, load_ok \in BOOLEAN :
        /\ config_providers' = strings
        /\ cooldown_minutes' = window
        /\ providers' = from_config(strings, window, load_ok)
        /\ io_ok' = load_ok
    /\ \E syntax_error \in SyntaxErrors :
        stderr' = IF syntax_error
                  THEN println(stderr, Progress("syntax error"))
                  ELSE stderr
    /\ pc' = "ready"
    /\ UNCHANGED <<now, apiVars, stdin, inv, appVars, stdout, code, file, which, idx,
                   pending, last_error, result, calls, last_call, failed,
                   expired>>

FromConfig == FromConfigWith(SeqUpTo(ConfigStrings, MaxConfigured), Windows)

\* generate_commit_message: build the prompt, last_error = None, enter the loop
GenerateAt(at) ==
    /\ pc = at
    /\ pc' = "loop"
    /\ idx' = 1
    /\ last_error' = None
    /\ config_providers' = <<>>
    /\ UNCHANGED <<now, apiVars, stdin, inv, appVars, ioVars, file, cooldown_minutes, providers, which,
                   pending, result, calls, last_call, failed, expired, io_ok>>

Generate == GenerateAt("ready")

silent_never == FALSE

\* the run takes generate_commit_message_silent, whose progress lines go to
\* standard error: the one --generate-for calls
silent == cli # None /\ cli.generate_for # None

\* a skip that records the provider it passes over as failed
SkipNotInstalled_records ==
    /\ pc = "loop"
    /\ idx <= Len(providers)
    /\ FALSE \in is_installed_answers(providers[idx])
    /\ which' = remember(providers[idx], FALSE)
    /\ idx' = idx + 1
    /\ file' = record_provider_failure(providers[idx], TRUE, "ok")
    /\ UNCHANGED <<now, apiVars, stdin, inv, appVars, ioVars, config_providers,
                   cooldown_minutes, providers, pc, pending, last_error,
                   result, calls, last_call, failed, expired, io_ok>>

\* the loop's `if !Self::is_installed(provider) { continue; }`
SkipNotInstalled ==
    /\ pc = "loop"
    /\ idx <= Len(providers)
    /\ FALSE \in is_installed_answers(providers[idx])
    /\ which' = remember(providers[idx], FALSE)
    /\ idx' = idx + 1
    /\ UNCHANGED <<now, apiVars, stdin, inv, appVars, ioVars, file, config_providers, cooldown_minutes,
                   providers, pc, pending, last_error, result, calls,
                   last_call, failed, expired, io_ok>>

CallProviderOk_keeps_trying ==
    /\ pc = "loop"
    /\ idx <= Len(providers)
    /\ TRUE \in is_installed_answers(providers[idx])
    /\ which' = remember(providers[idx], TRUE)
    /\ calls' = calls \cup {idx}
    /\ last_call' = [pos |-> idx, outcome |-> "ok"]
    /\ \E text \in CleanMessages : result' = Ok(text, idx)
    /\ pc' = IF idx < Len(providers) THEN "loop" ELSE "done"
    /\ idx' = idx + 1
    /\ stdout' = IF silent THEN stdout ELSE println(stdout, Progress("Using"))
    /\ stderr' = IF silent THEN println(stderr, Progress("Using")) ELSE stderr
    /\ UNCHANGED <<now, apiVars, stdin, inv, appVars, code, file, config_providers, cooldown_minutes,
                   providers, pending, last_error, failed, expired, io_ok>>

\* call_provider returns Ok(message): generate_commit_message returns it
CallProviderOk ==
    /\ pc = "loop"
    /\ idx <= Len(providers)
    /\ TRUE \in is_installed_answers(providers[idx])
    /\ which' = remember(providers[idx], TRUE)
    /\ calls' = calls \cup {idx}
    /\ last_call' = [pos |-> idx, outcome |-> "ok"]
    /\ \E text \in CleanMessages : result' = Ok(text, idx)
    /\ pc' = "done"
    /\ stdout' = IF silent THEN stdout ELSE println(stdout, Progress("Using"))
    /\ stderr' = IF silent THEN println(stderr, Progress("Using")) ELSE stderr
    /\ UNCHANGED <<now, apiVars, stdin, inv, appVars, code, file, config_providers, cooldown_minutes,
                   providers, idx, pending, last_error, failed, expired,
                   io_ok>>

\* a failing call that has the next provider started along with this one
CallProviderErr_fans_out ==
    /\ pc = "loop"
    /\ idx <= Len(providers)
    /\ TRUE \in is_installed_answers(providers[idx])
    /\ which' = remember(providers[idx], TRUE)
    /\ calls' = calls \cup {idx, idx + 1}
    /\ \E cause \in FailureCauses :
        /\ pending' = AiProviderError(providers[idx], cause)
        /\ last_call' = [pos |-> idx, outcome |-> cause]
    /\ pc' = "failed"
    /\ stdout' = IF silent THEN stdout ELSE println(stdout, Progress("Using"))
    /\ stderr' = IF silent
                  THEN println(println(stderr, Progress("Using")),
                               Progress("failed"))
                  ELSE println(stderr, Progress("failed"))
    /\ UNCHANGED <<now, apiVars, stdin, inv, appVars, code, file, config_providers,
                   cooldown_minutes, providers, idx, last_error, result,
                   failed, expired, io_ok>>

\* call_provider returns Err: spawn failure, broken pipe, wait failure,
\* non-zero exit, or empty output after clean_message
CallProviderErr ==
    /\ pc = "loop"
    /\ idx <= Len(providers)
    /\ TRUE \in is_installed_answers(providers[idx])
    /\ which' = remember(providers[idx], TRUE)
    /\ calls' = calls \cup {idx}
    /\ \E cause \in FailureCauses :
        /\ pending' = AiProviderError(providers[idx], cause)
        /\ last_call' = [pos |-> idx, outcome |-> cause]
    /\ pc' = "failed"
    /\ stdout' = IF silent THEN stdout ELSE println(stdout, Progress("Using"))
    /\ stderr' = IF silent
                  THEN println(println(stderr, Progress("Using")), Progress("failed"))
                  ELSE println(stderr, Progress("failed"))
    /\ UNCHANGED <<now, apiVars, stdin, inv, appVars, code, file, config_providers, cooldown_minutes,
                   providers, idx, last_error, result, failed, expired,
                   io_ok>>

\* the Err arm: record_provider_failure(provider); last_error = Some(e)
RecordProviderFailure ==
    /\ pc = "failed"
    /\ \E load_ok \in BOOLEAN, save \in {"ok", "denied", "truncated"} :
        /\ file' = record_provider_failure(providers[idx], load_ok, save)
        /\ io_ok' = (io_ok /\ load_ok /\ save = "ok")
    /\ last_error' = pending
    /\ pending' = None
    /\ idx' = idx + 1
    /\ pc' = "loop"
    /\ failed' = [k \in DOMAIN failed \cup {providers[idx]} |->
                    IF k = providers[idx] THEN now ELSE failed[k]]
    /\ expired' = (expired \ {providers[idx]})
                    \cup {k \in DOMAIN failed' :
                            ~(Age(failed'[k]) < cooldown_minutes * 60)}
    /\ UNCHANGED <<now, apiVars, stdin, inv, appVars, ioVars, config_providers, cooldown_minutes,
                   providers, which, result, calls, last_call>>

Exhausted_no_backend ==
    /\ pc = "loop"
    /\ idx > Len(providers)
    /\ result' = Err(NoAiProviderInstalled)
    /\ pc' = "done"
    /\ UNCHANGED <<now, apiVars, stdin, inv, appVars, ioVars, file, config_providers, cooldown_minutes,
                   providers, which, idx, pending, last_error, calls,
                   last_call, failed, expired, io_ok>>

\* after the loop: Err(last_error.unwrap_or(NoAiProviderInstalled))
Exhausted ==
    /\ pc = "loop"
    /\ idx > Len(providers)
    /\ result' = Err(unwrap_or(last_error, NoAiProviderInstalled))
    /\ pc' = "done"
    /\ UNCHANGED <<now, apiVars, stdin, inv, appVars, ioVars, file, config_providers, cooldown_minutes,
                   providers, which, idx, pending, last_error, calls,
                   last_call, failed, expired, io_ok>>

NextFallback ==
    \/ SetClock
    \/ FromConfig
    \/ Generate
    \/ SkipNotInstalled
    \/ CallProviderOk
    \/ CallProviderErr
    \/ RecordProviderFailure
    \/ Exhausted

SpecFallback == InitFallback /\ [][NextFallback]_vars

\* the runs that start from a store file that is empty or holds a failure
\* of gemini
InitFallbackLive ==
    /\ InitFallback
    /\ DOMAIN file \subseteq {"gemini"}

\* the run of one process: App::new and generate_commit_message go on
\* statement by statement, and a backend that has been started returns
\* (Ok or Err): the clock is under no obligation.  The runs start from the
\* store files that are empty or hold a failure of gemini
SpecFallbackLive ==
    /\ InitFallbackLive
    /\ [][NextFallback]_vars
    /\ WF_vars(FromConfig)
    /\ WF_vars(Generate)
    /\ WF_vars(SkipNotInstalled)
    /\ WF_vars(CallProviderOk \/ CallProviderErr)
    /\ WF_vars(RecordProviderFailure)
    /\ WF_vars(Exhausted)

(***************************************************************************)
(* Claims on the fallback engine.                                          *)
(***************************************************************************)
\* C2: as soon as one installed provider succeeds its message is returned:
\* the step that takes the Ok ends the run with that provider's message,
\* no position after it is ever invoked, and the success writes no failure
\* (the store file is left as it was).
C2_FirstSuccessReturns ==
    /\ [][(result = None /\ result' # None /\ result'.kind = "Ok") =>
            /\ pc' = "done"
            /\ result'.by = idx
            /\ result'.message \in CleanMessages
            /\ calls' = calls \cup {idx}
            /\ \A j \in calls : j < idx
            /\ file' = file
            /\ failed' = failed]_vars
    /\ [][(result # None /\ result.kind = "Ok") =>
            /\ calls' = calls
            /\ result' = result
            /\ file' = file]_vars

\* C2 witness: the second of three providers succeeded after the first failed
C2_Witness ==
    /\ pc = "done"
    /\ result.kind = "Ok"
    /\ result.by = 2
    /\ calls = {1, 2}
    /\ Len(providers) = 3
    /\ providers[3] \notin DOMAIN which
    /\ providers[2] \notin DOMAIN failed

\* C3 as stated, granting that every load and save of the run succeeded:
\* after the run the persisted store holds an entry for every provider that
\* failed in it.
C3_EveryFailureStored ==
    (pc = "done" /\ io_ok) => \A k \in DOMAIN failed : k \in DOMAIN file

\* C3 amended: when an invoked provider fails and the store is loaded and
\* saved, then, before the next provider is invoked, the file holds the
\* entry (provider, now) if the window is positive, holds no entry that is
\* expired at that moment (with a window of 0: no entry at all) and has lost
\* no unexpired entry; after the run, if every load and save succeeded, the
\* file holds an entry for every provider that failed in the run and whose
\* entry was not expired at its own or a later recording.
C3_FailureRecordedUnlessExpired ==
    /\ [][(pc = "failed" /\ pc' = "loop" /\ io_ok') =>
            LET k == providers[idx]
                w == cooldown_minutes * 60
            IN  /\ calls' = calls
                /\ w > 0 => (k \in DOMAIN file' /\ file'[k] = now)
                /\ \A x \in DOMAIN file' : Age(file'[x]) < w
                /\ \A x \in DOMAIN file \ {k} :
                      Age(file[x]) < w =>
                          (x \in DOMAIN file' /\ file'[x] = file[x])
                /\ DOMAIN file' \subseteq DOMAIN file \cup {k}]_vars
    /\ []((pc \in {"loop", "done"} /\ io_ok) =>
            \A k \in DOMAIN failed \ expired :
                k \in DOMAIN file /\ file[k] = failed[k])

\* C3 witness: two providers failed in a run with a positive window and
\* both entries are in the file at the end
C3_Witness ==
    /\ pc = "done"
    /\ io_ok
    /\ cooldown_minutes > 0
    /\ Cardinality(DOMAIN failed) = 2
    /\ expired = {}
    /\ \A k \in DOMAIN failed : k \in DOMAIN file /\ file[k] = failed[k]

\* C4: generate_commit_message returns an error only when no provider
\* succeeded; if at least one provider was invoked, the error is the failure
\* of the last provider invoked; if none was resolvable, it is
\* NoAiProviderInstalled.
C4_ErrorIsLastFailure ==
    pc = "done" =>
        /\ result # None
        /\ (result.kind = "Err") <=>
              (calls = {} \/ last_call.outcome # "ok")
        /\ result.kind = "Err" =>
              /\ \A i \in 1..Len(providers) :
                    i \in calls \/ which[providers[i]] = FALSE
              /\ IF calls = {}
                 THEN result.error = NoAiProviderInstalled
                 ELSE /\ \A j \in calls : j <= last_call.pos
                      /\ last_call.pos \in calls
                      /\ last_call.outcome \in FailureCauses
                      /\ result.error =
                            AiProviderError(providers[last_call.pos],
                                            last_call.outcome)

\* C4 witness: two providers failed for different reasons and the error
\* returned is the second one's
C4_Witness ==
    /\ pc = "done"
    /\ result.kind = "Err"
    /\ calls = {1, 2}
    /\ providers[1] # providers[2]
    /\ result.error = AiProviderError(providers[2], "empty")

\* C39: a provider that is skipped because its executable is not found is
\* never recorded as failed: the skipping step leaves the store file as it
\* is, and an entry of the file is added or refreshed only in the Err arm of
\* a provider that was invoked in this run and whose call failed; a provider
\* found not installed has no failure of this run.
C39_SkippedIsNotRecorded ==
    /\ [][(pc = "loop" /\ pc' = "loop" /\ idx' = idx + 1) =>
            /\ which'[providers[idx]] = FALSE
            /\ idx \notin calls'
            /\ file' = file
            /\ failed' = failed]_vars
    /\ [][\A k \in DOMAIN file' :
            (k \notin DOMAIN file \/ file[k] # file'[k]) =>
                /\ pc = "failed"
                /\ k = providers[idx]
                /\ which[k] = TRUE
                /\ idx \in calls
                /\ last_call.pos = idx
                /\ last_call.outcome \in FailureCauses
                /\ file'[k] = now]_vars
    /\ [](\A k \in DOMAIN which : which[k] = FALSE => k \notin DOMAIN failed)

\* C39 witness: the first provider was skipped, the second was invoked and
\* failed: the file has the entry of the second and none of the first
C39_Witness ==
    /\ pc = "done"
    /\ Len(providers) = 2
    /\ calls = {2}
    /\ which[providers[1]] = FALSE
    /\ providers[1] \notin DOMAIN file
    /\ providers[2] \in DOMAIN file
    /\ file[providers[2]] = now
    /\ now > 0

\* C33 as stated, provider by provider: no provider is invoked twice in a
\* run.
C33_EachProviderOnce ==
    \A i \in calls : \A j \in calls : i # j => providers[i] # providers[j]

\* C33 amended: the backends are invoked one after the other, in the order
\* of the list and each entry of the list once at most: a step invokes one
\* entry, the one the loop stands at, after every earlier invocation has
\* returned and its failure has been dealt with; there are never more
\* invocations than entries; and, every backend returning, the loop ends
\* with a message or an error.
C33_SequentialAndBounded ==
    /\ [][calls' # calls =>
            /\ pc = "loop"
            /\ pending = None
            /\ idx \notin calls
            /\ calls' = calls \cup {idx}
            /\ \A j \in calls : j < idx
            /\ last_call'.pos = idx]_vars
    /\ [](calls \subseteq 1..Len(providers))
    /\ [](Cardinality(calls) <= Len(providers))
    /\ (pc = "loop") ~> (pc = "done" /\ result # None)

\* C33 witness: each of three entries was invoked, one after the other,
\* and the run ended with the error of the third
C33_Witness ==
    /\ pc = "done"
    /\ Len(providers) = 3
    /\ calls = {1, 2, 3}
    /\ last_call.pos = 3
    /\ result.kind = "Err"

\* a provider is demoted in the store file under the window of w minutes:
\* it has an entry younger than the window
DemotedInFile(key, w) ==
    /\ key \in DOMAIN file
    /\ Age(file[key]) < w * 60

\* no demoted provider stands before one that is not demoted
DemotedLast(order, w) ==
    \A i \in 1..Len(order) : \A j \in 1..Len(order) :
        (i < j /\ DemotedInFile(order[i], w)) => DemotedInFile(order[j], w)

\* C36: in the fallback order that from_config builds from a store it could
\* load, no currently demoted provider precedes one that is not demoted, for
\* every configured list, the lists without a valid name included.
C36_DemotedNeverPrecedes ==
    [][(pc = "new" /\ pc' = "ready" /\ io_ok') =>
            DemotedLast(providers', cooldown_minutes')]_vars

\* the same for the configured lists that name a known provider: there the
\* order is the known names of the list, the not demoted ones first
C36_ConfiguredOrder ==
    [][(pc = "new" /\ pc' = "ready" /\ io_ok'
            /\ filter_map_from_str(config_providers') # <<>>) =>
        LET w == cooldown_minutes'
            names == config_providers'
        IN  /\ DemotedLast(providers', w)
            /\ providers' = filter_map_from_str(
                  SelectSeq(names,
                      LAMBDA p : ~DemotedInFile(to_lowercase(p), w))
                  \o SelectSeq(names,
                      LAMBDA p : DemotedInFile(to_lowercase(p), w)))]_vars

(***************************************************************************)
(* SpecStoreRace: two invocations of the program, each in the Err arm of   *)
(* generate_commit_message, run record_provider_failure side by side on    *)
(* the one store file.  A step is a read of the file, the change of the    *)
(* State in memory, or the write of the file.                              *)
(***************************************************************************)
Invocations == {1, 2}

\* invocation p before its record_provider_failure(key)
AtStart(key) ==
    [at |-> "start", key |-> key, loaded |-> EmptyStore,
     state |-> EmptyStore]

InitStoreRace ==
    /\ now \in TimePoints
    /\ st = EmptyStore
    /\ op = NoOp
    /\ stdin = None
    /\ file \in UNION {[K -> StoredTimes] : K \in SUBSET ProviderKeys}
    /\ cooldown_minutes \in Windows
    /\ inv \in {[run |-> [p \in Invocations |-> AtStart(k[p])],
                 writers |-> <<>>] : k \in [Invocations -> ProviderKeys]}
    /\ config_providers = <<>>
    /\ providers = <<>>
    /\ which = EmptyStore
    /\ pc = "failed"
    /\ idx = 0
    /\ pending = None
    /\ last_error = None
    /\ result = None
    /\ calls = {}
    /\ last_call = None
    /\ failed = EmptyStore
    /\ expired = {}
    /\ io_ok = TRUE
    /\ AppIdle
    /\ IoIdle
    /\ FnIdle

\* what the steps of the two invocations leave alone
RaceFrame ==
    UNCHANGED <<now, apiVars, stdin, config_providers, cooldown_minutes,
                providers, which, pc, idx, pending, last_error, result,
                calls, last_call, failed, expired, io_ok, appVars, ioVars>>

\* invocation p goes on to at, with the State it holds and has loaded
Moved(p, at, loaded, state) ==
    [inv.run EXCEPT ![p] = [at |-> at, key |-> inv.run[p].key,
                            loaded |-> loaded, state |-> state]]

\* State::load: the whole file is read and parsed; on Err
\* record_provider_failure does nothing
Load(p) ==
    /\ inv.run[p].at = "start"
    /\ \E load_ok \in BOOLEAN :
        inv' = [inv EXCEPT !.run =
                  IF load_ok THEN Moved(p, "loaded", file, file)
                  ELSE Moved(p, "returned", EmptyStore, EmptyStore)]
    /\ file' = file
    /\ RaceFrame

\* state.record_failure(key); state.cleanup_expired(cooldown_minutes)
Change(p) ==
    /\ inv.run[p].at = "loaded"
    /\ inv' = [inv EXCEPT !.run =
                 Moved(p, "changed", inv.run[p].loaded,
                       cleanup_expired(
                           record_failure(inv.run[p].state, inv.run[p].key),
                           cooldown_minutes))]
    /\ file' = file
    /\ RaceFrame

\* a save that writes its entries into the file beside those it finds
Save_merges(p) ==
    /\ inv.run[p].at = "changed"
    /\ \E written \in BOOLEAN :
        /\ file' = IF written
                   THEN [k \in DOMAIN file \cup DOMAIN inv.run[p].state |->
                           IF k \in DOMAIN inv.run[p].state
                           THEN inv.run[p].state[k] ELSE file[k]]
                   ELSE file
        /\ inv' = [run |-> Moved(p, "returned", inv.run[p].loaded,
                                 inv.run[p].state),
                   writers |-> IF written THEN Append(inv.writers, p)
                               ELSE inv.writers]
    /\ RaceFrame

\* let _ = state.save(): fs::write puts the serialized State in the place
\* of the file, or fails and is ignored
Save(p) ==
    /\ inv.run[p].at = "changed"
    /\ \E written \in BOOLEAN :
        /\ file' = IF written THEN inv.run[p].state ELSE file
        /\ inv' = [run |-> Moved(p, "returned", inv.run[p].loaded,
                                 inv.run[p].state),
                   writers |-> IF written THEN Append(inv.writers, p)
                               ELSE inv.writers]
    /\ RaceFrame

NextStoreRace ==
    \/ SetClock
    \/ \E p \in Invocations : Load(p)
    \/ \E p \in Invocations : Change(p)
    \/ \E p \in Invocations : Save(p)

SpecStoreRace == InitStoreRace /\ [][NextStoreRace]_vars

\* both invocations have returned from record_provider_failure
BothReturned == \A p \in Invocations : inv.run[p].at = "returned"

\* C32: the store file is read whole, changed in memory and written whole,
\* with no lock: the file changes only by the write of an invocation, which
\* puts the State that invocation holds in its place, made from the file as
\* it was when the invocation read it; once both invocations have returned
\* the file is the State of the one that wrote last, whatever the other had
\* written.
C32_LastWriterWins ==
    /\ [][file' # file =>
            \E p \in Invocations :
                /\ inv.run[p].at = "changed"
                /\ inv'.run[p].at = "returned"
                /\ file' = inv.run[p].state
                /\ inv'.writers = Append(inv.writers, p)]_vars
    /\ [](\A p \in Invocations :
            inv.run[p].at \in {"changed", "returned"} =>
                /\ DOMAIN inv.run[p].state
                      \subseteq DOMAIN inv.run[p].loaded \cup {inv.run[p].key}
                /\ \A k \in DOMAIN inv.run[p].state \ {inv.run[p].key} :
                      inv.run[p].state[k] = inv.run[p].loaded[k])
    /\ []((BothReturned /\ inv.writers # <<>>) =>
            file = inv.run[inv.writers[Len(inv.writers)]].state)

\* C32 witness: both invocations wrote, under a window of a minute and at
\* one time; the file is the State of the second writer and the failure the
\* first writer recorded is not in it
C32_Witness ==
    /\ BothReturned
    /\ Len(inv.writers) = 2
    /\ cooldown_minutes = CooldownMinutes
    /\ inv.run[inv.writers[1]].key # inv.run[inv.writers[2]].key
    /\ inv.run[inv.writers[1]].key
          \in DOMAIN inv.run[inv.writers[1]].state
    /\ file = inv.run[inv.writers[2]].state
    /\ inv.run[inv.writers[1]].key \notin DOMAIN file
    /\ inv.run[inv.writers[2]].key \in DOMAIN file

(***************************************************************************)
(* App (src/src/app.rs): messages are character sequences.                 *)
(***************************************************************************)
\* char::is_whitespace on the characters used here
is_whitespace(c) == c \in {" ", "\n"}

\* str::find(':'): the position of the first c in s, 0 for None
find(s, c) ==
    IF \E i \in DOMAIN s : s[i] = c
    THEN CHOOSE i \in DOMAIN s :
            s[i] = c /\ \A j \in 1..(i - 1) : s[j] # c
    ELSE 0

\* str::trim_start
RECURSIVE trim_start(_)
trim_start(s) ==
    IF s # <<>> /\ is_whitespace(Head(s)) THEN trim_start(Tail(s)) ELSE s

\* str::trim_end
RECURSIVE trim_end(_)
trim_end(s) ==
    IF s # <<>> /\ is_whitespace(s[Len(s)])
    THEN trim_end(SubSeq(s, 1, Len(s) - 1))
    ELSE s

\* str::trim
trim(s) == trim_end(trim_start(s))

\* str::rfind(':'): the position of the last c in s, 0 for None
rfind(s, c) ==
    IF \E i \in DOMAIN s : s[i] = c
    THEN CHOOSE i \in DOMAIN s :
            s[i] = c /\ \A j \in (i + 1)..Len(s) : s[j] # c
    ELSE 0

\* a prefix put in place of everything up to the last colon
apply_prefix_last_colon(text, prefix) ==
    LET colon_pos == rfind(text, ":")
    IN  IF colon_pos # 0
        THEN prefix \o trim_start(SubSeq(text, colon_pos + 1, Len(text)))
        ELSE prefix \o text

\* a type prefix taken off without the whitespace after its colon
strip_type_prefix_keeps_whitespace(text) ==
    LET colon_pos == find(text, ":")
    IN  IF colon_pos # 0 THEN SubSeq(text, colon_pos + 1, Len(text))
        ELSE text

\* App::apply_prefix
apply_prefix(text, prefix) ==
    LET colon_pos == find(text, ":")
    IN  IF colon_pos # 0
        THEN prefix \o trim_start(SubSeq(text, colon_pos + 1, Len(text)))
        ELSE prefix \o text

\* App::strip_type_prefix
strip_type_prefix(text) ==
    LET colon_pos == find(text, ":")
    IN  IF colon_pos # 0
        THEN trim_start(SubSeq(text, colon_pos + 1, Len(text)))
        ELSE text

\* the three backquotes of a fenced block, as one element of a text
Fence == "fence"

\* str::lines: the pieces the newlines of s separate; a final newline ends
\* the last line and starts none
RECURSIVE lines_of(_)
lines_of(s) ==
    LET n == find(s, "\n")
    IN  IF s = <<>> THEN <<>>
        ELSE IF n = 0 THEN <<s>>
        ELSE <<SubSeq(s, 1, n - 1)>> \o lines_of(SubSeq(s, n + 1, Len(s)))

\* [&str]::join_lines("\n")
RECURSIVE join_lines(_)
join_lines(ls) ==
    IF ls = <<>> THEN <<>>
    ELSE IF Len(ls) = 1 THEN Head(ls)
    ELSE Head(ls) \o <<"\n">> \o join_lines(Tail(ls))

\* str::trim_matches(c): every c at the start and at the end is removed
RECURSIVE trim_matches(_, _)
trim_matches(s, c) ==
    IF s # <<>> /\ Head(s) = c THEN trim_matches(Tail(s), c)
    ELSE IF s # <<>> /\ s[Len(s)] = c
    THEN trim_matches(SubSeq(s, 1, Len(s) - 1), c)
    ELSE s

\* a cleanup that takes one quote from each end of a text enclosed in a
\* pair of the same quotes, and nothing else
clean_message_one_layer(text) ==
    LET trimmed == trim(text)
        ls == lines_of(trimmed)
        body == IF /\ trimmed # <<>>
                   /\ Head(trimmed) = Fence
                   /\ trimmed[Len(trimmed)] = Fence
                   /\ Len(ls) > 2
                THEN join_lines(SubSeq(ls, 2, Len(ls) - 1))
                ELSE trimmed
        quoted == /\ Len(body) >= 2
                  /\ Head(body) \in {"\"", "'"}
                  /\ body[Len(body)] = Head(body)
    IN  trim(IF quoted THEN SubSeq(body, 2, Len(body) - 1) ELSE body)

\* AiService::clean_message.  The text is a sequence of characters in
\* which Fence stands for three backquotes, the only backquotes there are,
\* so that starts_with and ends_with of the three backquotes test the first
\* and the last element.
clean_message(text) ==
    LET trimmed == trim(text)
        ls == lines_of(trimmed)
        body == IF /\ trimmed # <<>>
                   /\ Head(trimmed) = Fence
                   /\ trimmed[Len(trimmed)] = Fence
                THEN IF Len(ls) > 2
                     THEN join_lines(SubSeq(ls, 2, Len(ls) - 1))
                     ELSE trimmed
                ELSE trimmed
    IN  trim(trim_matches(trim_matches(body, "\""), "'"))

\* ScriptResult and PrefixMode
Prefix(p) == [kind |-> "Prefix", prefix |-> p]
Empty == [kind |-> "Empty"]
Failed == [kind |-> "Failed"]
Script(r) == [kind |-> "Script", result |-> r]
Rule(t) == [kind |-> "Rule", prefix_type |-> t]
Auto == [kind |-> "Auto"]

\* GitService::run_prefix_script on what the script did: it could not be
\* run (None), exited 0 printing stdout, or exited non-zero
\* a script whose output counts whatever its exit status
run_prefix_script_ignores_status(run) ==
    IF run.kind = "spawn_failed" THEN None
    ELSE IF trim(run.stdout) = <<>>
         THEN IF run.kind = "exit0" THEN Empty ELSE Failed
    ELSE Prefix(run.stdout)

\* a script that cannot be started taken for one that failed
run_prefix_script_spawn_is_failed(run) ==
    IF run.kind = "exit0"
    THEN IF trim(run.stdout) = <<>> THEN Empty ELSE Prefix(run.stdout)
    ELSE Failed

run_prefix_script(run) ==
    IF run.kind = "spawn_failed" THEN None
    ELSE IF run.kind = "exit0"
         THEN IF trim(run.stdout) = <<>> THEN Empty ELSE Prefix(run.stdout)
    ELSE Failed

\* a pattern that is tried at the start of the text only
is_match_at_start(url_pattern, url) ==
    LET anchored == url_pattern # <<>> /\ Head(url_pattern) = "^"
        body == IF anchored THEN Tail(url_pattern) ELSE url_pattern
    IN  /\ \A i \in DOMAIN url_pattern : url_pattern[i] # "("
        /\ Len(body) <= Len(url)
        /\ SubSeq(url, 1, Len(body)) = body

\* `if let Ok(re) = Regex::new(url_pattern) { if re.is_match(&remote_url)`
\* for the patterns enumerated: literal characters, a leading "^" that
\* anchors the match at the start, an unclosed "(" that Regex::new
\* rejects.  An unanchored pattern is tried at every position of the text.
is_match(url_pattern, url) ==
    LET anchored == url_pattern # <<>> /\ Head(url_pattern) = "^"
        body == IF anchored THEN Tail(url_pattern) ELSE url_pattern
        at(i) == /\ i + Len(body) - 1 <= Len(url)
                 /\ SubSeq(url, i, i + Len(body) - 1) = body
    IN  /\ \A i \in DOMAIN url_pattern : url_pattern[i] # "("
        /\ IF anchored THEN at(1)
           ELSE \E i \in 1..(Len(url) + 1) : at(i)

\* the two loops of App::get_prefix_mode_internal.  An entry of
\* prefix_scripts carries its url_pattern and what its script does when it
\* is run; an entry of prefix_rules its url_pattern and its prefix_type.
RECURSIVE first_rule(_, _)
first_rule(url, rules) ==
    IF rules = <<>> THEN Auto
    ELSE IF is_match(Head(rules).url_pattern, url)
         THEN Rule(Head(rules).prefix_type)
    ELSE first_rule(url, Tail(rules))

RECURSIVE first_script(_, _, _, _)
first_script(url, scripts, branch, rules) ==
    IF scripts = <<>> THEN first_rule(url, rules)
    ELSE IF /\ is_match(Head(scripts).url_pattern, url)
            /\ branch # None
            /\ run_prefix_script(Head(scripts).run) # None
         THEN Script(run_prefix_script(Head(scripts).run))
    ELSE first_script(url, Tail(scripts), branch, rules)

\* App::get_prefix_mode_internal
get_prefix_mode_internal(remote_url, branch, scripts, rules) ==
    IF remote_url = None THEN Auto
    ELSE first_script(remote_url.value, scripts, branch, rules)

\* the lines App::get_prefix_mode_internal writes to standard output when
\* it is not silent: one for every script whose pattern matches, up to the
\* one that decides, else one for the rule that decides
RECURSIVE rule_lines(_, _)
rule_lines(url, rules) ==
    IF rules = <<>> THEN <<>>
    ELSE IF is_match(Head(rules).url_pattern, url)
         THEN <<Progress("Using prefix rule")>>
    ELSE rule_lines(url, Tail(rules))

RECURSIVE script_lines(_, _, _, _)
script_lines(url, scripts, branch, rules) ==
    IF scripts = <<>> THEN rule_lines(url, rules)
    ELSE IF is_match(Head(scripts).url_pattern, url)
         THEN <<Progress("Running prefix script")>> \o
              (IF /\ branch # None
                  /\ run_prefix_script(Head(scripts).run) # None
               THEN <<>>
               ELSE script_lines(url, Tail(scripts), branch, rules))
    ELSE script_lines(url, Tail(scripts), branch, rules)

prefix_lines(remote_url, branch, scripts, rules) ==
    IF remote_url = None THEN <<>>
    ELSE script_lines(remote_url.value, scripts, branch, rules)

\* a post-processing that takes the type prefix off after a failed script
post_process_failed_strips(mode, text) ==
    IF mode.kind = "Script"
    THEN IF mode.result.kind = "Prefix"
         THEN apply_prefix(text, mode.result.prefix)
         ELSE strip_type_prefix(text)
    ELSE text

\* the post-processing every workflow applies to the generated message
post_process(mode, text) ==
    IF mode.kind = "Script"
    THEN IF mode.result.kind = "Prefix"
         THEN apply_prefix(text, mode.result.prefix)
         ELSE IF mode.result.kind = "Empty" THEN strip_type_prefix(text)
         ELSE text
    ELSE text

\* the remote URL the enumerated repositories have, when they have one
RemoteUrl == <<"g", "/", "a">>

\* configurations and remotes the workflows are run under: no origin
\* remote; a script that prints "T "; a script that prints an empty line,
\* before a rule; a script that prints "T " and exits with 1; a rule alone
A_SCRIPT(run) == [url_pattern |-> <<"a">>, run |-> run]
A_RULE == [url_pattern |-> <<"a">>, prefix_type |-> "conventional"]
PrefixSetups ==
    { [remote_url |-> None, scripts |-> <<>>, rules |-> <<A_RULE>>],
      [remote_url |-> Some(RemoteUrl), scripts |->
          <<A_SCRIPT([kind |-> "exit0", stdout |-> <<"T", " ">>])>>,
       rules |-> <<>>],
      [remote_url |-> Some(RemoteUrl), scripts |->
          <<A_SCRIPT([kind |-> "exit0", stdout |-> <<"\n">>])>>,
       rules |-> <<A_RULE>>],
      [remote_url |-> Some(RemoteUrl), scripts |->
          <<A_SCRIPT([kind |-> "exit1", stdout |-> <<"T", " ">>])>>,
       rules |-> <<>>],
      [remote_url |-> Some(RemoteUrl), scripts |-> <<>>,
       rules |-> <<[url_pattern |-> <<"a">>, prefix_type |-> "emoji"]>>] }

(***************************************************************************)
(* SpecPrefix: App::get_prefix_mode_internal statement by statement, under *)
(* every enumerated remote, branch and configuration.                      *)
(***************************************************************************)
\* longest prefix_scripts and prefix_rules list enumerated
MaxEntries == 2

\* what a configured script may do when it is run
ScriptRuns ==
    { [kind |-> "spawn_failed", stdout |-> <<>>],
      [kind |-> "exit0", stdout |-> <<"T", " ">>],
      [kind |-> "exit0", stdout |-> <<"\n">>],
      [kind |-> "exit1", stdout |-> <<>>] }

\* entries of prefix_scripts and of prefix_rules.  Of the patterns, "a"
\* is found at the end of RemoteUrl, "^a" is not found at its start, "^g"
\* is, and "(" is not a regular expression.
ScriptEntries ==
    {[url_pattern |-> p, run |-> r] : p \in {<<"a">>, <<"^", "a">>},
                                      r \in ScriptRuns}
RuleEntries ==
    { [url_pattern |-> <<"a">>, prefix_type |-> "conventional"],
      [url_pattern |-> <<"^", "a">>, prefix_type |-> "emoji"],
      [url_pattern |-> <<"^", "g">>, prefix_type |-> "emoji"],
      [url_pattern |-> <<"(">>, prefix_type |-> "emoji"] }

\* get_remote_url and get_current_branch answers, and the configured lists
Setups ==
    {[remote_url |-> u, branch |-> b, scripts |-> s, rules |-> r] :
        u \in {None, Some(RemoteUrl)}, b \in {None, Some("main")},
        s \in SeqUpTo(ScriptEntries, MaxEntries),
        r \in SeqUpTo(RuleEntries, MaxEntries)}

InitPrefix ==
    /\ now = 0
    /\ st = EmptyStore
    /\ op = NoOp
    /\ stdin = None
    /\ inv = None
    /\ file = EmptyStore
    /\ config_providers = <<>>
    /\ cooldown_minutes = 0
    /\ providers = <<>>
    /\ which = EmptyStore
    /\ pc = "get_remote_url"
    /\ idx = 0
    /\ pending = None
    /\ last_error = None
    /\ result = None
    /\ calls = {}
    /\ last_call = None
    /\ failed = EmptyStore
    /\ expired = {}
    /\ io_ok = TRUE
    /\ AppIdle
    /\ IoIdle
    /\ raw = <<>>
    /\ ignore = None
    /\ filter = [name |-> "none", round |-> 1]
    /\ setup \in Setups
    /\ script_runs = <<>>
    /\ rules_seen = 0

\* the variables get_prefix_mode_internal leaves alone
notPrefixVars ==
    <<now, apiVars, stdin, inv, file, config_providers, cooldown_minutes, providers,
      which, pending, last_error, result, calls, last_call, failed, expired,
      io_ok, cli, platform, repo, repo0, merge_base, request, message, exit,
      git_log, diff, ioVars, raw, ignore, filter, setup>>

\* get_prefix_mode_internal returns mode
ReturnMode(mode) ==
    /\ prefix_mode' = mode
    /\ pc' = "returned"

GetRemoteUrl_goes_on ==
    /\ pc = "get_remote_url"
    /\ pc' = "prefix_scripts"
    /\ idx' = 1
    /\ UNCHANGED <<prefix_mode, script_runs, rules_seen, notPrefixVars>>

\* let remote_url = match self.git.get_remote_url() { .. None => return Auto }
GetRemoteUrl ==
    /\ pc = "get_remote_url"
    /\ IF setup.remote_url = None
       THEN ReturnMode(Auto) /\ UNCHANGED idx
       ELSE pc' = "prefix_scripts" /\ idx' = 1 /\ UNCHANGED prefix_mode
    /\ UNCHANGED <<script_runs, rules_seen, notPrefixVars>>

\* a loop over the scripts that goes on to the next entry after a script
\* that exited with a failure
ScriptLoop_failed_goes_on ==
    /\ pc = "prefix_scripts"
    /\ IF idx > Len(setup.scripts)
       THEN /\ pc' = "prefix_rules"
            /\ idx' = 1
            /\ UNCHANGED <<prefix_mode, script_runs>>
       ELSE LET script_config == setup.scripts[idx]
                ran == /\ is_match(script_config.url_pattern,
                                   setup.remote_url.value)
                       /\ setup.branch # None
                answer == run_prefix_script(script_config.run)
            IN  /\ script_runs' = IF ran THEN Append(script_runs, idx)
                                  ELSE script_runs
                /\ IF ran /\ answer # None /\ answer # Failed
                   THEN ReturnMode(Script(answer)) /\ UNCHANGED idx
                   ELSE /\ idx' = idx + 1
                        /\ UNCHANGED <<pc, prefix_mode>>
    /\ UNCHANGED <<rules_seen, notPrefixVars>>

\* one turn of `for script_config in &self.prefix_scripts`, or its end
ScriptLoop ==
    /\ pc = "prefix_scripts"
    /\ IF idx > Len(setup.scripts)
       THEN /\ pc' = "prefix_rules"
            /\ idx' = 1
            /\ UNCHANGED <<prefix_mode, script_runs>>
       ELSE LET script_config == setup.scripts[idx]
                ran == /\ is_match(script_config.url_pattern,
                                   setup.remote_url.value)
                       /\ setup.branch # None
                answer == run_prefix_script(script_config.run)
            IN  /\ script_runs' = IF ran THEN Append(script_runs, idx)
                                  ELSE script_runs
                /\ IF ran /\ answer # None
                   THEN ReturnMode(Script(answer)) /\ UNCHANGED idx
                   ELSE /\ idx' = idx + 1
                        /\ UNCHANGED <<pc, prefix_mode>>
    /\ UNCHANGED <<rules_seen, notPrefixVars>>

\* one turn of `for rule_config in &self.prefix_rules`, or its end
RuleLoop ==
    /\ pc = "prefix_rules"
    /\ IF idx > Len(setup.rules)
       THEN ReturnMode(Auto) /\ UNCHANGED <<idx, rules_seen>>
       ELSE /\ rules_seen' = rules_seen + 1
            /\ IF is_match(setup.rules[idx].url_pattern,
                           setup.remote_url.value)
               THEN /\ ReturnMode(Rule(setup.rules[idx].prefix_type))
                    /\ UNCHANGED idx
               ELSE /\ idx' = idx + 1
                    /\ UNCHANGED <<pc, prefix_mode>>
    /\ UNCHANGED <<script_runs, notPrefixVars>>

NextPrefix ==
    \/ GetRemoteUrl
    \/ ScriptLoop
    \/ RuleLoop

SpecPrefix == InitPrefix /\ [][NextPrefix]_vars

(***************************************************************************)
(* Claims on the prefix resolution.                                        *)
(***************************************************************************)
\* C20: without a remote origin URL get_prefix_mode_internal returns Auto
\* from its first statement: no prefix script is invoked and no prefix rule
\* is looked at, whatever scripts and rules are configured.
C20_NoRemoteIsAuto ==
    setup.remote_url = None =>
        /\ pc \in {"get_remote_url", "returned"}
        /\ pc = "returned" => prefix_mode = Auto
        /\ script_runs = <<>>
        /\ rules_seen = 0
        /\ get_prefix_mode_internal(setup.remote_url, setup.branch,
                                    setup.scripts, setup.rules) = Auto

\* C20 witness: no remote, on a branch, with a matching script that would
\* print a prefix and a matching rule configured: Auto, nothing was run
C20_Witness ==
    /\ pc = "returned"
    /\ prefix_mode = Auto
    /\ setup.remote_url = None
    /\ setup.branch # None
    /\ Len(setup.scripts) = 1
    /\ setup.scripts[1].url_pattern = <<"a">>
    /\ setup.scripts[1].run.kind = "exit0"
    /\ Len(setup.rules) = 1
    /\ setup.rules[1].url_pattern = <<"a">>
    /\ script_runs = <<>>
    /\ rules_seen = 0

\* the statements agree with get_prefix_mode_internal as the workflows use it
PrefixStepsAgree ==
    pc = "returned" =>
        prefix_mode = get_prefix_mode_internal(setup.remote_url, setup.branch,
                                               setup.scripts, setup.rules)

\* C21: with a remote URL and a branch name, the first script in the
\* configured order whose pattern matches the URL and that could be started
\* decides: the resolution returns Script of its outcome (Prefix, Empty or
\* Failed), no script after it is run, and the rules are never reached,
\* whether or not one of them matches.
C21_FirstScriptDecides ==
    LET Yields(i) ==
            /\ is_match(setup.scripts[i].url_pattern, setup.remote_url.value)
            /\ setup.scripts[i].run.kind \in {"exit0", "exit1"}
        Deciders == {i \in DOMAIN setup.scripts : Yields(i)}
        d == CHOOSE i \in Deciders : \A j \in Deciders : i <= j
    IN  (setup.remote_url # None /\ setup.branch # None /\ Deciders # {}) =>
            /\ pc # "prefix_rules"
            /\ rules_seen = 0
            /\ \A k \in DOMAIN script_runs : script_runs[k] <= d
            /\ pc = "returned" =>
                  /\ prefix_mode = Script(run_prefix_script(setup.scripts[d].run))
                  /\ prefix_mode.result \in
                        {Prefix(setup.scripts[d].run.stdout), Empty, Failed}
                  /\ script_runs # <<>>
                  /\ script_runs[Len(script_runs)] = d

\* C21 witness: the first script matches and exits with a failure, the
\* second would print a prefix and a rule matches too: Script(Failed) is
\* returned, only the first script was run and no rule was looked at
C21_Witness ==
    /\ pc = "returned"
    /\ prefix_mode = Script(Failed)
    /\ Len(setup.scripts) = 2
    /\ setup.scripts[1] = [url_pattern |-> <<"a">>,
                           run |-> [kind |-> "exit1", stdout |-> <<>>]]
    /\ setup.scripts[2] = [url_pattern |-> <<"a">>,
                           run |-> [kind |-> "exit0", stdout |-> <<"T", " ">>]]
    /\ Len(setup.rules) = 1
    /\ setup.rules[1].url_pattern = <<"a">>
    /\ script_runs = <<1>>
    /\ rules_seen = 0

\* C22: with a remote URL, a matching script that cannot be started, and
\* every matching script when there is no branch name, is passed over: the
\* resolution always has a next step until it returns, a Script result
\* never comes from a script that was not started, and when no matching
\* script was started every matching script has been tried in order (none
\* without a branch name) and the result is Rule of the first matching
\* rule, or Auto when no rule matches.
C22_UnstartedScriptIsSkipped ==
    /\ pc \in {"get_remote_url", "prefix_scripts", "prefix_rules"} =>
          ENABLED NextPrefix
    /\ (setup.remote_url # None /\ pc = "returned") =>
          LET url == setup.remote_url.value
              Matching == {i \in DOMAIN setup.scripts :
                             is_match(setup.scripts[i].url_pattern, url)}
              Started == {i \in Matching :
                            /\ setup.branch # None
                            /\ setup.scripts[i].run.kind # "spawn_failed"}
              Rules == {k \in DOMAIN setup.rules :
                          is_match(setup.rules[k].url_pattern, url)}
              first == CHOOSE k \in Rules : \A j \in Rules : k <= j
          IN  /\ prefix_mode.kind = "Script" =>
                    /\ script_runs # <<>>
                    /\ script_runs[Len(script_runs)] \in Started
              /\ Started = {} =>
                    /\ prefix_mode = IF Rules = {} THEN Auto
                                     ELSE Rule(setup.rules[first].prefix_type)
                    /\ Len(script_runs) =
                          IF setup.branch = None THEN 0
                          ELSE Cardinality(Matching)
                    /\ \A k \in DOMAIN script_runs :
                          /\ script_runs[k] \in Matching
                          /\ k > 1 => script_runs[k - 1] < script_runs[k]

\* C22 witness: on a branch, the first script matches and cannot be
\* started, the second does not match, and the second rule is the first
\* that matches: the script was tried and Rule of the second rule returned
C22_Witness ==
    /\ pc = "returned"
    /\ setup.branch # None
    /\ Len(setup.scripts) = 2
    /\ setup.scripts[1] = [url_pattern |-> <<"a">>,
                           run |-> [kind |-> "spawn_failed", stdout |-> <<>>]]
    /\ setup.scripts[2].url_pattern = <<"^", "a">>
    /\ setup.rules = << [url_pattern |-> <<"^", "a">>, prefix_type |-> "emoji"],
                        [url_pattern |-> <<"a">>,
                         prefix_type |-> "conventional"] >>
    /\ script_runs = <<1>>
    /\ rules_seen = 2
    /\ prefix_mode = Rule("conventional")

\* C24: when the resolution returns with a remote URL and no script has
\* decided, the result is Rule of the prefix_type of the first rule, in the
\* configured order, whose pattern is a regular expression found anywhere
\* in the remote URL (at its start only for a pattern that begins with
\* "^"), the rules after it are not looked at, and it is Auto when there is
\* no such rule.
C24_FirstMatchingRule ==
    (setup.remote_url # None /\ pc = "returned"
        /\ prefix_mode.kind # "Script") =>
        LET url == setup.remote_url.value
            Found(p) ==
                IF \E i \in DOMAIN p : p[i] = "(" THEN FALSE
                ELSE IF p # <<>> /\ Head(p) = "^"
                THEN \E j \in 0..Len(url) : SubSeq(url, 1, j) = Tail(p)
                ELSE \E i \in 1..(Len(url) + 1), j \in 0..Len(url) :
                        SubSeq(url, i, j) = p
            Rules == {k \in DOMAIN setup.rules :
                        Found(setup.rules[k].url_pattern)}
            first == CHOOSE k \in Rules : \A j \in Rules : k <= j
        IN  IF Rules = {}
            THEN prefix_mode = Auto /\ rules_seen = Len(setup.rules)
            ELSE /\ prefix_mode = Rule(setup.rules[first].prefix_type)
                 /\ rules_seen = first

\* C24 witness: no script, and two rules that both match, the first by a
\* pattern found at the end of the URL: Rule of the first one's type
C24_Witness ==
    /\ pc = "returned"
    /\ setup.remote_url = Some(RemoteUrl)
    /\ setup.scripts = <<>>
    /\ setup.rules = << [url_pattern |-> <<"a">>,
                         prefix_type |-> "conventional"],
                        [url_pattern |-> <<"^", "g">>, prefix_type |-> "emoji"] >>
    /\ ~is_match_at_start(<<"a">>, RemoteUrl)
    /\ prefix_mode = Rule("conventional")
    /\ rules_seen = 1

(***************************************************************************)
(* SpecText: the functions on texts, each applied once to every enumerated *)
(* text: App::apply_prefix, App::strip_type_prefix,                        *)
(* AiService::clean_message and GitService::run_prefix_script.             *)
(***************************************************************************)
\* the longest text enumerated
MaxChars == 5

\* the characters of generated messages and of what a script prints, and
\* the characters of what a backend prints
MessageChars == {"f", ":", " ", "\n"}
OutputChars == {"f", "\n", "\"", "'", Fence}
TextInputs ==
    SeqUpTo(MessageChars, MaxChars) \cup SeqUpTo(OutputChars, MaxChars)

\* the prefixes a script has printed: "T " and "T: "
Prefixes == {<<"T", " ">>, <<"T", ":", " ">>}

\* how a run of a script ends
Exits == {"spawn_failed", "exit0", "exit1"}

InitText ==
    /\ now = 0
    /\ st = EmptyStore
    /\ op = NoOp
    /\ stdin = None
    /\ inv = None
    /\ AiIdle
    /\ AppIdle
    /\ IoIdle
    /\ raw \in TextInputs
    /\ ignore = None
    /\ filter = [name |-> "none", round |-> 1]
    /\ setup = None
    /\ script_runs = <<>>
    /\ rules_seen = 0

\* the function name is applied to raw and the argument arg
Applied(name, arg) ==
    /\ filter.name = "none"
    /\ filter' = [filter EXCEPT !.name = name]
    /\ setup' = arg
    /\ UNCHANGED <<now, apiVars, stdin, inv, aiVars, ioVars, cli, platform, repo, repo0,
                   merge_base, request, exit, git_log, diff, raw, ignore,
                   script_runs, rules_seen>>

ApplyPrefix ==
    \E prefix \in Prefixes :
        /\ Applied("apply_prefix", Some(prefix))
        /\ message' = apply_prefix(raw, prefix)
        /\ UNCHANGED prefix_mode

StripTypePrefix ==
    /\ Applied("strip_type_prefix", None)
    /\ message' = strip_type_prefix(raw)
    /\ UNCHANGED prefix_mode

CleanMessage ==
    /\ Applied("clean_message", None)
    /\ message' = clean_message(raw)
    /\ UNCHANGED prefix_mode

\* the script ends in one of the three ways, having printed raw if it ran
RunPrefixScript ==
    \E kind \in Exits :
        LET run == [kind |-> kind,
                    stdout |-> IF kind = "spawn_failed" THEN <<>> ELSE raw]
        IN  /\ Applied("run_prefix_script", run)
            /\ prefix_mode' = run_prefix_script(run)
            /\ UNCHANGED message

NextText ==
    \/ ApplyPrefix
    \/ StripTypePrefix
    \/ CleanMessage
    \/ RunPrefixScript

SpecText == InitText /\ [][NextText]_vars

(***************************************************************************)
(* Claims on the functions on texts.                                       *)
(***************************************************************************)
\* C23: run_prefix_script classifies a script that ran by its exit status
\* and its standard output alone: exit 0 with an output that has a
\* character other than whitespace gives Prefix of that output as it was
\* printed, exit 0 with an empty or whitespace-only output gives Empty, and
\* a non-zero exit gives Failed whatever was printed.
C23_ScriptResult ==
    (filter.name = "run_prefix_script" /\ setup.kind # "spawn_failed") =>
        LET blank == \A i \in DOMAIN setup.stdout :
                        setup.stdout[i] \in {" ", "\n"}
        IN  /\ (setup.kind = "exit0" /\ ~blank) =>
                    prefix_mode = Prefix(setup.stdout)
            /\ (setup.kind = "exit0" /\ blank) => prefix_mode = Empty
            /\ setup.kind = "exit1" => prefix_mode = Failed

\* C23 witness: a script that printed "f: " and exited with 1: Failed
C23_Witness ==
    /\ filter.name = "run_prefix_script"
    /\ setup = [kind |-> "exit1", stdout |-> <<"f", ":", " ">>]
    /\ prefix_mode = Failed

\* C25: apply_prefix on a message with a colon gives the prefix followed
\* by what follows the first colon from its first character that is not
\* whitespace on, unchanged up to the end (later colons and lines
\* included); on a message without a colon it gives the prefix followed by
\* the whole message.
C25_ApplyPrefix ==
    filter.name = "apply_prefix" =>
        LET prefix == setup.value
            Colons == {i \in DOMAIN raw : raw[i] = ":"}
            colon == CHOOSE i \in Colons : \A j \in Colons : i <= j
            Rest == {i \in (colon + 1)..Len(raw) : raw[i] \notin {" ", "\n"}}
            start == IF Rest = {} THEN Len(raw) + 1
                     ELSE CHOOSE i \in Rest : \A j \in Rest : i <= j
        IN  IF Colons = {} THEN message = prefix \o raw
            ELSE /\ message = prefix \o SubSeq(raw, start, Len(raw))
                 /\ Count(message, ":") =
                        Count(prefix, ":") + Cardinality(Colons) - 1

\* C25 witness: "f:f\n:" under the prefix "T " gives "T f\n:": the
\* second line and its colon are kept
C25_Witness ==
    /\ filter.name = "apply_prefix"
    /\ raw = <<"f", ":", "f", "\n", ":">>
    /\ setup = Some(<<"T", " ">>)
    /\ message = <<"T", " ", "f", "\n", ":">>

\* C26: strip_type_prefix removes everything up to and including the first
\* colon and the whitespace after it, leaving the rest unchanged (later
\* colons included), and returns a message without a colon as it is.
C26_StripTypePrefix ==
    filter.name = "strip_type_prefix" =>
        LET Colons == {i \in DOMAIN raw : raw[i] = ":"}
            colon == CHOOSE i \in Colons : \A j \in Colons : i <= j
            Rest == {i \in (colon + 1)..Len(raw) : raw[i] \notin {" ", "\n"}}
            start == IF Rest = {} THEN Len(raw) + 1
                     ELSE CHOOSE i \in Rest : \A j \in Rest : i <= j
        IN  IF Colons = {} THEN message = raw
            ELSE /\ message = SubSeq(raw, start, Len(raw))
                 /\ Count(message, ":") = Cardinality(Colons) - 1

\* C26 witness: "f:  f:f" gives "f:f": the first colon and the two spaces
\* after it are gone, the second colon stays
C26_Witness ==
    /\ filter.name = "strip_type_prefix"
    /\ raw = <<"f", ":", " ", "f", ":">>
    /\ message = <<"f", ":">>

\* C29: clean_message gives the text trimmed, without its first and last
\* line when it begins and ends with a fence and has more than two lines,
\* without one quote at each end when it is then enclosed in a pair of
\* double or of single quotes, and trimmed again; a text that is neither
\* fenced nor enclosed in quotes is only trimmed.
C29_CleanMessage ==
    filter.name = "clean_message" =>
        /\ message = clean_message_one_layer(raw)
        /\ LET trimmed == trim(raw)
               fenced == /\ trimmed # <<>>
                         /\ Head(trimmed) = Fence
                         /\ trimmed[Len(trimmed)] = Fence
               quoted == /\ Len(trimmed) >= 2
                         /\ Head(trimmed) \in {"\"", "'"}
                         /\ trimmed[Len(trimmed)] = Head(trimmed)
           IN  (~fenced /\ ~quoted) => message = trimmed

(***************************************************************************)
(* SpecPrompt: AiService::build_prompt, applied once to every enumerated   *)
(* request.  The prompt is kept as the parts the template is filled with;  *)
(* the format section is a sequence of lines, a line [n, text] being the   *)
(* text alone (n = 0) or `n. text`.                                        *)
(***************************************************************************)
Sentence(text) == [n |-> 0, text |-> text]
Numbered(i, c) == [n |-> i, text |-> c]

\* the instruction of a custom prefix: the fixed words, then the prefix
Custom(prefix) == [n |-> 0, text |-> "Use the following prefix format: ",
                   custom |-> prefix]

\* the fixed texts of the format section, each cut after its first example
UseConventional == Sentence("Use Conventional Commits format (e.g., feat:).")
UseBracket == Sentence("Use bracket prefix format (e.g., [Add]).")
UseColon == Sentence("Use colon prefix format (e.g., Add:).")
UseEmoji == Sentence("Use emoji prefix format.")
NoPrefix == Sentence("Do NOT use any prefix.")
NoRecent ==
    Sentence("No recent commits found. Use Conventional Commits format.")
RecentHead == Sentence("Recent commit messages in this repository:")
MatchStyle ==
    Sentence("Analyze the recent commit messages above and match their style.")

\* a format section that takes none for a custom prefix
format_section_none_is_custom(prefix_type, recent_commits) ==
    IF prefix_type = Some("conventional") THEN <<UseConventional>>
    ELSE IF prefix_type = Some("bracket") THEN <<UseBracket>>
    ELSE IF prefix_type = Some("colon") THEN <<UseColon>>
    ELSE IF prefix_type = Some("emoji") THEN <<UseEmoji>>
    ELSE IF prefix_type = Some("plain") THEN <<NoPrefix>>
    ELSE IF prefix_type # None THEN <<Custom(prefix_type.value)>>
    ELSE IF recent_commits = <<>> THEN <<NoRecent>>
    ELSE <<RecentHead>>
         \o [i \in DOMAIN recent_commits |-> Numbered(i, recent_commits[i])]
         \o <<Sentence(""), MatchStyle>>

\* build_prompt: `let format_section = match prefix_type { .. }`
format_section(prefix_type, recent_commits) ==
    IF prefix_type = Some("conventional") THEN <<UseConventional>>
    ELSE IF prefix_type = Some("bracket") THEN <<UseBracket>>
    ELSE IF prefix_type = Some("colon") THEN <<UseColon>>
    ELSE IF prefix_type = Some("emoji") THEN <<UseEmoji>>
    ELSE IF prefix_type \in {Some("plain"), Some("none")} THEN <<NoPrefix>>
    ELSE IF prefix_type # None THEN <<Custom(prefix_type.value)>>
    ELSE IF recent_commits = <<>> THEN <<NoRecent>>
    ELSE <<RecentHead>>
         \o [i \in DOMAIN recent_commits |-> Numbered(i, recent_commits[i])]
         \o <<Sentence(""), MatchStyle>>

\* build_prompt: `let body_instructions = if with_body { .. } else { .. }`
body_instructions(with_body) == IF with_body THEN "Structure" ELSE "Rules"

\* AiService::build_prompt: the template with its four places filled
build_prompt(d, recent_commits, language, prefix_type, with_body) ==
    [format_section |-> format_section(prefix_type, recent_commits),
     language |-> language,
     body_instructions |-> body_instructions(with_body),
     diff |-> d]

\* the longest list of recent commits enumerated
MaxRecent == 2

\* the subjects of recent commits, the directives (the six known ones, one
\* of them in another case, a custom prefix) and the languages enumerated
Subjects == {"feat: a", "fix b"}
Directives ==
    {None} \cup {Some(t) : t \in {"conventional", "bracket", "colon",
                                  "emoji", "plain", "none", "Conventional",
                                  "JIRA-1 "}}
Languages == {"Japanese", "English"}
Requests ==
    {[recent_commits |-> rc, prefix_type |-> t, language |-> l,
      with_body |-> b] :
        rc \in SeqUpTo(Subjects, MaxRecent), t \in Directives,
        l \in Languages, b \in BOOLEAN}

InitPrompt ==
    /\ now = 0
    /\ st = EmptyStore
    /\ op = NoOp
    /\ stdin = None
    /\ inv = None
    /\ AiIdle
    /\ cli = None
    /\ platform = "unknown"
    /\ repo = None
    /\ repo0 = None
    /\ prefix_mode = None
    /\ merge_base = 0
    /\ request \in Requests
    /\ message = <<>>
    /\ exit = None
    /\ git_log = <<>>
    /\ diff = <<>>
    /\ IoIdle
    /\ FnIdle

\* generate_commit_message: let prompt = Self::build_prompt(..)
BuildPrompt ==
    /\ message = <<>>
    /\ message' = <<build_prompt(diff, request.recent_commits,
                                 request.language, request.prefix_type,
                                 request.with_body)>>
    /\ UNCHANGED <<now, apiVars, stdin, inv, aiVars, ioVars, cli, platform,
                   repo, repo0, prefix_mode, merge_base, request, exit,
                   git_log, diff, fnVars>>

NextPrompt == BuildPrompt

SpecPrompt == InitPrompt /\ [][NextPrompt]_vars

\* C34: with a directive, the format instruction of the prompt is chosen by
\* the directive alone, whatever the recent commits are: one fixed text for
\* each of conventional, bracket, colon and emoji, one and the same
\* no-prefix text for plain and none, and for any other directive the
\* custom-prefix instruction that quotes it; without a directive the prompt
\* lists the recent subjects, numbered from 1 in their order, and tells to
\* match their style, or, the list being empty, tells to use Conventional
\* Commits.
C34_FormatInstruction ==
    message # <<>> =>
        LET section == message[1].format_section
            directive == request.prefix_type
            recent == request.recent_commits
            fixed == [conventional |-> UseConventional,
                      bracket |-> UseBracket, colon |-> UseColon,
                      emoji |-> UseEmoji, plain |-> NoPrefix,
                      none |-> NoPrefix]
        IN  /\ directive # None =>
                /\ \A rc \in SeqUpTo(Subjects, MaxRecent) :
                      format_section(directive, rc) = section
                /\ Len(section) = 1
                /\ IF directive.value \in DOMAIN fixed
                   THEN section[1] = fixed[directive.value]
                   ELSE /\ section[1] = Custom(directive.value)
                        /\ section[1] \notin
                              {fixed[k] : k \in DOMAIN fixed}
            /\ (directive = None /\ recent = <<>>) => section = <<NoRecent>>
            /\ (directive = None /\ recent # <<>>) =>
                /\ Len(section) = Len(recent) + 3
                /\ section[1] = RecentHead
                /\ \A i \in DOMAIN recent :
                      section[i + 1] = Numbered(i, recent[i])
                /\ section[Len(section)] = MatchStyle
            /\ Cardinality({UseConventional, UseBracket, UseColon, UseEmoji,
                            NoPrefix, NoRecent}) = 6

\* C34 witness: the directive none, beside two recent commits, gave the
\* no-prefix instruction alone
C34_Witness ==
    /\ message # <<>>
    /\ request.prefix_type = Some("none")
    /\ Len(request.recent_commits) = 2
    /\ message[1].format_section = <<NoPrefix>>

(***************************************************************************)
(* Diff texts and the diff filters of GitService (src/src/git/service.rs). *)
(* A text is kept as the sequence of the pieces its newlines separate (the *)
(* empty text is one empty piece; a text that ends with a newline ends     *)
(* with an empty piece).  A piece is [tag, path, len]: what the filters    *)
(* test on it (how it starts, the marker it contains, the path its header  *)
(* names) and its number of characters.                                    *)
(***************************************************************************)
\* const MAX_DIFF_CHARS
MAX_DIFF_CHARS == 10000

\* the characters of "... (diff truncated: exceeded 10000 characters)"
NoticeChars == 47

\* the most parts an enumerated diff text is put together from
MaxParts == 3
\* how many times in a row a text is given to a filter
MaxRounds == 2

Line(tag, path, len) == [tag |-> tag, path |-> path, len |-> len]
EmptyLine == Line("text", "", 0)
\* "diff --git a/<path> b/<path>"
Header(path) == Line("diff --git", path, 20)
\* "Binary files a/<path> and b/<path> differ"
Marker == Line("Binary files differ", "", 40)
\* a content line that mentions the word Binary
Mention == Line("Binary", "", 10)
\* any other line of len characters
Hunk(len) == Line("text", "", len)
\* the line truncate_diff appends
Notice == Line("... (diff truncated", "", NoticeChars)

\* line.starts_with("diff --git")
starts_with_diff_git(line) == line.tag = "diff --git"

\* line.contains("Binary files") && line.contains("differ")
contains_binary_files_differ(line) == line.tag = "Binary files differ"

\* diff.chars().count()
RECURSIVE chars_count(_)
chars_count(t) ==
    IF Len(t) = 1 THEN t[1].len
    ELSE t[1].len + 1 + chars_count(Tail(t))

\* diff.trim().is_empty()
is_blank(t) == \A i \in DOMAIN t : t[i].len = 0

\* str::lines: the lines of a text; the last line's newline is optional
lines(t) == IF t[Len(t)].len = 0 THEN SubSeq(t, 1, Len(t) - 1) ELSE t

\* [&str]::join("\n")
join(ls) == IF ls = <<>> THEN <<EmptyLine>> ELSE ls

\* the index of the first `diff --git` line after line i, Len + 1 if none
block_end(ls, i) ==
    IF \E j \in (i + 1)..Len(ls) : starts_with_diff_git(ls[j])
    THEN CHOOSE j \in (i + 1)..Len(ls) :
            /\ starts_with_diff_git(ls[j])
            /\ \A k \in (i + 1)..(j - 1) : ~starts_with_diff_git(ls[k])
    ELSE Len(ls) + 1

\* the while loop of filter_binary_diff from line i on
RECURSIVE filter_binary_loop(_, _, _)
filter_binary_loop(ls, i, filtered_lines) ==
    IF i > Len(ls) THEN filtered_lines
    ELSE IF starts_with_diff_git(ls[i])
    THEN LET next == block_end(ls, i)
             is_binary == \E j \in (i + 1)..(next - 1) :
                              contains_binary_files_differ(ls[j])
         IN  filter_binary_loop(ls, next,
                 IF is_binary THEN filtered_lines
                 ELSE filtered_lines \o SubSeq(ls, i, next - 1))
    ELSE filter_binary_loop(ls, i + 1, Append(filtered_lines, ls[i]))

filter_binary_diff_drops_marker_lines(diff_text) ==
    IF diff_text = <<EmptyLine>> THEN <<EmptyLine>>
    ELSE join(SelectSeq(lines(diff_text),
                        LAMBDA l : ~contains_binary_files_differ(l)))

\* GitService::filter_binary_diff
filter_binary_diff(diff_text) ==
    IF diff_text = <<EmptyLine>> THEN <<EmptyLine>>
    ELSE join(filter_binary_loop(lines(diff_text), 1, <<>>))

\* Gitignore::matched_path_or_any_parents(path).is_ignore() on the path
\* that extract_file_path_from_diff_header finds in the header
is_ignore(patterns, line) == line.path \in patterns

\* the while loop of filter_ignored_files from line i on
RECURSIVE filter_ignored_loop(_, _, _, _)
filter_ignored_loop(ls, patterns, i, filtered_lines) ==
    IF i > Len(ls) THEN filtered_lines
    ELSE IF starts_with_diff_git(ls[i])
    THEN LET next == block_end(ls, i)
             should_ignore == is_ignore(patterns, ls[i])
         IN  filter_ignored_loop(ls, patterns, next,
                 IF should_ignore THEN filtered_lines
                 ELSE filtered_lines \o SubSeq(ls, i, next - 1))
    ELSE filter_ignored_loop(ls, patterns, i + 1,
                             Append(filtered_lines, ls[i]))

\* GitService::filter_ignored_files
filter_ignored_files(diff_text, patterns) ==
    IF diff_text = <<EmptyLine>> THEN <<EmptyLine>>
    ELSE join(filter_ignored_loop(lines(diff_text), patterns, 1, <<>>))

\* the characters of the first j pieces and the newlines that end them
RECURSIVE chars_through(_, _)
chars_through(t, j) ==
    IF j = 0 THEN 0 ELSE chars_through(t, j - 1) + t[j].len + 1

\* truncated.rfind('\n') on the first MAX_DIFF_CHARS characters, as the
\* number of whole lines before that newline; 0 for None
rfind_newline(t) ==
    LET inside == {j \in 1..(Len(t) - 1) :
                      chars_through(t, j) <= MAX_DIFF_CHARS}
    IN  IF inside = {} THEN 0
        ELSE CHOOSE j \in inside : \A k \in inside : k <= j

\* GitService::truncate_diff
truncate_diff(d) ==
    IF chars_count(d) <= MAX_DIFF_CHARS THEN d
    ELSE LET last_newline == rfind_newline(d)
         IN  IF last_newline # 0
             THEN SubSeq(d, 1, last_newline) \o <<EmptyLine, Notice>>
             ELSE <<[d[1] EXCEPT !.len = MAX_DIFF_CHARS],
                    EmptyLine, Notice>>

\* GitService::load_ignore_patterns: the patterns of the .git-sc-ignore at
\* the root of the repository, None without the file
load_ignore_patterns(r) == r.ignore

\* GitService::apply_all_filters
apply_all_filters(r, d) ==
    LET filtered == filter_binary_diff(d)
        ignored == IF load_ignore_patterns(r) # None
                   THEN filter_ignored_files(filtered,
                                             load_ignore_patterns(r).value)
                   ELSE filtered
    IN  truncate_diff(ignored)

(***************************************************************************)
(* SpecDiff: a filter is applied to a diff text, and its output may be     *)
(* given to a filter again.                                                *)
(***************************************************************************)
\* the parts the enumerated texts are put together from: lines outside any
\* block (short, nearly as long as the budget, longer than the budget,
\* empty, a marker), and blocks (a text change, a text change that
\* mentions Binary, a binary file, a file .git-sc-ignore names, a header
\* alone)
Parts ==
    { <<Hunk(10)>>, <<Hunk(9960)>>, <<Hunk(10001)>>, <<EmptyLine>>,
      <<Marker>>,
      <<Header("src"), Hunk(10)>>, <<Header("src"), Mention>>,
      <<Header("img"), Marker, Hunk(10)>>, <<Header("gen"), Hunk(10)>>,
      <<Header("src")>> }

RECURSIVE concat(_)
concat(parts) ==
    IF parts = <<>> THEN <<>> ELSE Head(parts) \o concat(Tail(parts))

\* the texts enumerated; without parts, the empty text
Texts == {join(concat(parts)) : parts \in SeqUpTo(Parts, MaxParts)}

\* the .git-sc-ignore files enumerated: none, one that names gen
IgnoreFiles == {None, Some({"gen"})}

\* the variables of a run of the program, which no filter touches
runVars == <<cli, platform, repo, repo0, prefix_mode, merge_base, request,
             message, exit, git_log>>

InitDiff ==
    /\ now = 0
    /\ st = EmptyStore
    /\ op = NoOp
    /\ stdin = None
    /\ inv = None
    /\ AiIdle
    /\ AppIdle
    /\ IoIdle
    /\ raw \in Texts
    /\ ignore \in IgnoreFiles
    /\ filter = [name |-> "none", round |-> 1]
    /\ setup = None
    /\ script_runs = <<>>
    /\ rules_seen = 0

\* the frame of a filter call that leaves output in diff
Filtered(name, output) ==
    /\ filter.name = "none"
    /\ diff' = output
    /\ filter' = [filter EXCEPT !.name = name]
    /\ UNCHANGED <<now, apiVars, stdin, inv, aiVars, ioVars, runVars, raw, ignore, setup,
                   script_runs, rules_seen>>

FilterBinaryDiff == Filtered("filter_binary_diff", filter_binary_diff(raw))

FilterIgnoredFiles ==
    /\ ignore # None
    /\ Filtered("filter_ignored_files",
                filter_ignored_files(raw, ignore.value))

TruncateDiff == Filtered("truncate_diff", truncate_diff(raw))

ApplyAllFilters ==
    Filtered("apply_all_filters",
             apply_all_filters([ignore |-> ignore], raw))

\* the output is the next input
Again ==
    /\ filter.name # "none"
    /\ filter.round < MaxRounds
    /\ raw' = diff
    /\ diff' = <<>>
    /\ filter' = [name |-> "none", round |-> filter.round + 1]
    /\ UNCHANGED <<now, apiVars, stdin, inv, aiVars, ioVars, runVars, ignore, setup,
                   script_runs, rules_seen>>

NextDiff ==
    \/ FilterBinaryDiff
    \/ FilterIgnoredFiles
    \/ TruncateDiff
    \/ ApplyAllFilters
    \/ Again

SpecDiff == InitDiff /\ [][NextDiff]_vars

(***************************************************************************)
(* Claims on the diff filters.                                             *)
(***************************************************************************)
\* C16: the filter pipeline is idempotent: apply_all_filters on its own
\* output gives that output again, for every diff text, the ones longer
\* than the budget included.
C16_Idempotent ==
    filter.name = "apply_all_filters" =>
        apply_all_filters([ignore |-> ignore], diff) = diff

\* the position of the header of the block line i of ls is in, 0 before
\* the first block
block_of(ls, i) ==
    IF \E h \in 1..i : starts_with_diff_git(ls[h])
    THEN CHOOSE h \in 1..i :
            /\ starts_with_diff_git(ls[h])
            /\ \A k \in (h + 1)..i : ~starts_with_diff_git(ls[k])
    ELSE 0

\* line i of ls is in a block that holds a marker line
InBinaryBlock(ls, i) ==
    /\ block_of(ls, i) # 0
    /\ \E j \in 1..Len(ls) :
          /\ contains_binary_files_differ(ls[j])
          /\ block_of(ls, j) = block_of(ls, i)

\* the lines of ls from i on that are in no such block
RECURSIVE OutsideBinaryBlocks(_, _)
OutsideBinaryBlocks(ls, i) ==
    IF i > Len(ls) THEN <<>>
    ELSE (IF InBinaryBlock(ls, i) THEN <<>> ELSE <<ls[i]>>)
            \o OutsideBinaryBlocks(ls, i + 1)

\* C17: filter_binary_diff gives the lines of its input that are in no
\* block (from a `diff --git` line up to the next) holding a "Binary files
\* ... differ" line, unchanged and in their order, joined by newlines: the
\* text before the first block and every other block are kept whole, and so
\* is a block that only mentions Binary.
C17_DropsExactlyBinaryBlocks ==
    filter.name = "filter_binary_diff" =>
        diff = join(OutsideBinaryBlocks(lines(raw), 1))

\* C17 witness: text before the first block, a binary block with a line
\* after its marker, and a text block that mentions Binary: the binary
\* block is gone, the rest is there
C17_Witness ==
    /\ filter.name = "filter_binary_diff"
    /\ raw = <<Hunk(10), Header("img"), Marker, Hunk(10), Header("src"),
               Mention>>
    /\ diff = <<Hunk(10), Header("src"), Mention>>

\* C18: truncate_diff gives a text of at most MAX_DIFF_CHARS characters
\* back unchanged, and of a longer one some of its first lines, each whole,
\* followed by the notice.
C18_NeverCutsMidLine ==
    filter.name = "truncate_diff" =>
        IF chars_count(raw) <= MAX_DIFF_CHARS THEN diff = raw
        ELSE \E j \in 0..Len(lines(raw)) :
                diff = SubSeq(lines(raw), 1, j) \o <<EmptyLine, Notice>>

(***************************************************************************)
(* The repository as git keeps it, and the git commands GitService runs.   *)
(* A commit is [msg, diff, merge]: its message, the set of changes it      *)
(* makes to its first parent, and whether it has a second parent.  head is *)
(* the first-parent chain HEAD points to, root first; tip is the chain the *)
(* current branch points to (they differ only while a rebase is stopped);  *)
(* staged and unstaged are the changes of the index against HEAD and of    *)
(* the working tree against the index; base_at is the number of commits of *)
(* head that the base branch `main` shares with it; msg_file is            *)
(* git-sc-reword-message.txt in the temp directory.                        *)
(***************************************************************************)
\* longest history enumerated
MaxCommits == 3
\* largest N of --reword N enumerated
MaxN == 3

OldMessage == <<"o">>

\* the kinds of commit a history is built from: a text change, a change
\* that the diff filters hide (a binary file), a merge
TextChange(i) == [id |-> i, kind |-> "text"]
BinaryChange(i) == [id |-> i, kind |-> "binary"]
CommitsAt(i) ==
    { [msg |-> OldMessage, diff |-> {TextChange(i)}, merge |-> FALSE],
      [msg |-> OldMessage, diff |-> {BinaryChange(i)}, merge |-> FALSE],
      [msg |-> OldMessage, diff |-> {TextChange(i)}, merge |-> TRUE] }

\* the plain commit: a text change, one parent
Plain(i) == [msg |-> OldMessage, diff |-> {TextChange(i)}, merge |-> FALSE]

\* histories of up to MaxCommits commits, at most one of them not plain;
\* the root commit is no merge
Histories ==
    UNION { {h \in [1..k -> UNION {CommitsAt(i) : i \in 1..k}] :
                /\ \A i \in 1..k : h[i] \in CommitsAt(i)
                /\ ~h[1].merge
                /\ \A i, j \in 1..k :
                      (h[i] # Plain(i) /\ h[j] # Plain(j)) => i = j} :
            k \in 1..MaxCommits }

\* AppError values of the history workflows
GitError == [kind |-> "GitError"]
HasMergeCommits == [kind |-> "HasMergeCommits"]
RebaseConflict == [kind |-> "RebaseConflict"]
InvalidRewordTarget == [kind |-> "InvalidRewordTarget"]
OkUnit == [kind |-> "Ok"]

\* what a GitService call leaves: the repository, its Result, and the
\* mutating git commands it ran
Ret(r, res, log) == [repo |-> r, result |-> res, log |-> log]

\* git's clean-up of a message given with -m or left by the editor: leading
\* empty lines and trailing whitespace go
RECURSIVE drop_empty_lines(_)
drop_empty_lines(s) ==
    IF s # <<>> /\ Head(s) = "\n" THEN drop_empty_lines(Tail(s)) ELSE s

git_cleanup(text) == trim_end(drop_empty_lines(text))

\* String::contains on git's stderr, kept as the set of phrases it carries
contains(err_text, phrase) == phrase \in err_text

\* the faults the environment may put into one mutating call: none; the
\* temp file cannot be written; git cannot be spawned; a hook rejects the
\* commit; the rebase hits a conflict at its step `at`; the reset fails
NoFault == [fail |-> "none", at |-> 0]
Faults(n) ==
    {NoFault} \cup
    {[fail |-> f, at |-> 0] : f \in {"write", "spawn", "hook", "reset"}} \cup
    {[fail |-> "conflict", at |-> a] : a \in 1..n}

\* `git commit -m <text>`
git_commit(r, text, env) ==
    IF r.staged = {} \/ git_cleanup(text) = <<>> \/ env.fail = "hook"
    THEN [repo |-> r, success |-> FALSE]
    ELSE LET c == [msg |-> git_cleanup(text), diff |-> r.staged,
                   merge |-> FALSE]
         IN  [repo |-> [r EXCEPT !.head = Append(r.head, c),
                                  !.tip = IF r.rebasing THEN r.tip
                                          ELSE Append(r.head, c),
                                  !.staged = {}],
              success |-> TRUE]

\* `git commit --amend -m <text>`: the last commit is replaced by one that
\* carries the new message and takes the staged changes in
git_commit_amend(r, text, env) ==
    IF git_cleanup(text) = <<>> \/ env.fail = "hook"
    THEN [repo |-> r, success |-> FALSE]
    ELSE LET last == r.head[Len(r.head)]
             c == [msg |-> git_cleanup(text),
                   diff |-> last.diff \cup r.staged,
                   merge |-> last.merge]
             amended == [r.head EXCEPT ![Len(r.head)] = c]
         IN  [repo |-> [r EXCEPT !.head = amended,
                                  !.tip = IF r.rebasing THEN r.tip
                                          ELSE amended,
                                  !.staged = {}],
              success |-> TRUE]

\* `git reset --soft <commit>` to the commit with k commits below and
\* including it: the branch moves, index and working tree stay
git_reset_soft(r, k, env) ==
    IF env.fail = "reset"
    THEN [repo |-> r, success |-> FALSE]
    ELSE LET dropped == {r.head[i].diff : i \in (k + 1)..Len(r.head)}
         IN  [repo |-> [r EXCEPT !.head = SubSeq(r.head, 1, k),
                                  !.tip = SubSeq(r.head, 1, k),
                                  !.staged = r.staged \cup UNION dropped],
              success |-> TRUE]

\* the GIT_SEQUENCE_EDITOR of reword_commit on the todo list: sed rewrites
\* `pick` on line 1; PowerShell's -replace rewrites it on every line
sequence_editor(plat, todo) ==
    IF plat = "windows"
    THEN [i \in DOMAIN todo |-> "reword"]
    ELSE [i \in DOMAIN todo |-> IF i = 1 THEN "reword" ELSE todo[i]]

\* `git rebase -i HEAD~n` under the two editors.  git refuses to start on a
\* dirty index or working tree or inside another rebase.  Each step replays
\* a commit; a reword step then commits with the message the GIT_EDITOR
\* copied from msg_file, and stops the rebase when that commit is rejected
\* (an empty message, a hook); a conflict stops it before the commit.
git_rebase_i(r, n, plat, env) ==
    LET len == Len(r.head)
        base == SubSeq(r.head, 1, len - n)
        picked == SubSeq(r.head, len - n + 1, len)
        todo == sequence_editor(plat, [i \in 1..n |-> "pick"])
        text == git_cleanup(r.msg_file.value)
        replayed(i) == IF todo[i] = "reword"
                       THEN [picked[i] EXCEPT !.msg = text]
                       ELSE picked[i]
        done(k) == base \o [i \in 1..k |-> replayed(i)]
        rejected == text = <<>> \/ env.fail = "hook"
    IN  IF r.staged # {} \/ r.unstaged # {} \/ r.rebasing
        THEN [repo |-> r, success |-> FALSE, stderr |-> {"cannot rebase"}]
        ELSE IF env.fail = "conflict" /\ (env.at = 1 \/ ~rejected)
        THEN [repo |-> [r EXCEPT !.head = done(env.at - 1),
                                  !.unstaged = {[id |-> 0, kind |-> "conflict"]},
                                  !.rebasing = TRUE],
              success |-> FALSE,
              stderr |-> {"CONFLICT", "could not apply"}]
        ELSE IF rejected
        THEN [repo |-> [r EXCEPT !.head = Append(base, picked[1]),
                                  !.rebasing = TRUE],
              success |-> FALSE,
              stderr |-> {"Could not amend commit"}]
        ELSE [repo |-> [r EXCEPT !.head = done(n), !.tip = done(n)],
              success |-> TRUE, stderr |-> {}]

\* `git rebase --abort`: HEAD, index and working tree go back to the branch
\* as it was when the rebase started
git_rebase_abort(r) ==
    IF r.rebasing
    THEN [r EXCEPT !.head = r.tip, !.staged = {}, !.unstaged = {},
                   !.rebasing = FALSE]
    ELSE r

(***************************************************************************)
(* GitService (src/src/git/service.rs).                                    *)
(***************************************************************************)
\* what `git diff` and `git show` print for a set of changes, in the order
\* of their ids: per change a header and then a marker (a binary file), a
\* long line (a large change) or a short line; the output ends with a
\* newline
block(c) ==
    IF c.kind = "binary" THEN <<Header("img"), Marker>>
    ELSE IF c.kind = "large" THEN <<Header("src"), Hunk(6000)>>
    ELSE <<Header("src"), Hunk(10)>>

RECURSIVE blocks(_)
blocks(changes) ==
    IF changes = {} THEN <<>>
    ELSE LET c == CHOOSE x \in changes : \A y \in changes : x.id <= y.id
         IN  block(c) \o blocks(changes \ {c})

git_diff(changes) ==
    IF changes = {} THEN <<EmptyLine>>
    ELSE Append(blocks(changes), EmptyLine)

\* GitService::branch_exists: `git rev-parse --verify <branch>`
branch_exists(r, branch) == branch = "main" \/ Some(branch) = r.branch

\* GitService::get_current_branch: None on a detached HEAD
get_current_branch(r) == r.branch

\* GitService::get_merge_base(base, "HEAD"): the number of commits up to
\* the merge-base, or Err when the histories share none
get_merge_base(r) ==
    IF r.base_at = 0 THEN Err(GitError)
    ELSE [kind |-> "Ok", value |-> r.base_at]

count_commits_from_base_inclusive(r, k) == Len(r.head) - k + 1

\* GitService::count_commits_from_base: `git rev-list --count <base>..HEAD`
count_commits_from_base(r, k) == Len(r.head) - k

\* GitService::get_diff_from_base: `git diff -w <base> HEAD`, filtered
get_diff_from_base(r, k) ==
    apply_all_filters(r,
        git_diff(UNION {r.head[i].diff : i \in (k + 1)..Len(r.head)}))

\* GitService::get_last_commit_diff: `git diff -w HEAD~1 HEAD`, filtered
get_last_commit_diff(r) ==
    IF Len(r.head) < 2 THEN Err(GitError)
    ELSE [kind |-> "Ok",
          value |-> apply_all_filters(r, git_diff(r.head[Len(r.head)].diff))]

\* GitService::get_commit_diff_at(n): the filtered diff of the commit that
\* --reword N names, the Nth behind and including HEAD
get_commit_diff_at(r, n) ==
    IF n > Len(r.head) THEN Err(GitError)
    ELSE [kind |-> "Ok",
          value |-> apply_all_filters(r,
                        git_diff(r.head[Len(r.head) - n + 1].diff))]

\* GitService::stage_all: `git add -A` moves every change of the working
\* tree into the index
stage_all(r) ==
    Ret([r EXCEPT !.staged = r.staged \cup r.unstaged, !.unstaged = {}],
        OkUnit, <<"add -A">>)

\* GitService::get_staged_diff: `git diff --cached -w`, filtered
get_staged_diff(r) == apply_all_filters(r, git_diff(r.staged))

\* `git rev-parse --verify <hash>`: the position in the history of the
\* commit a hash names, 0 when it names none
rev_parse(r, hash) ==
    IF hash = "c1" /\ Len(r.head) >= 1 THEN 1
    ELSE IF hash = "c2" /\ Len(r.head) >= 2 THEN 2
    ELSE 0

InvalidCommitHash(hash) == [kind |-> "InvalidCommitHash", hash |-> hash]

get_commit_diff_by_hash_unverified(r, hash) ==
    IF rev_parse(r, hash) = 0 THEN [kind |-> "Ok", value |-> <<EmptyLine>>]
    ELSE [kind |-> "Ok",
          value |-> apply_all_filters(r,
                        git_diff(r.head[rev_parse(r, hash)].diff))]

\* GitService::get_commit_diff_by_hash: the hash is verified, then
\* `git show <hash> --format= --no-color -w`, filtered
get_commit_diff_by_hash(r, hash) ==
    IF rev_parse(r, hash) = 0 THEN Err(InvalidCommitHash(hash))
    ELSE [kind |-> "Ok",
          value |-> apply_all_filters(r,
                        git_diff(r.head[rev_parse(r, hash)].diff))]

has_merge_commits_in_range_head_only(r, n) ==
    IF n >= Len(r.head) THEN Err(GitError)
    ELSE [kind |-> "Ok", value |-> r.head[Len(r.head)].merge]

\* GitService::has_merge_commits_in_range:
\* `git rev-list --merges HEAD~n..HEAD`, an error when HEAD~n does not exist
has_merge_commits_in_range(r, n) ==
    IF n >= Len(r.head) THEN Err(GitError)
    ELSE [kind |-> "Ok",
          value |-> \E i \in (Len(r.head) - n + 1)..Len(r.head) :
                        r.head[i].merge]

\* GitService::commit
commit(r, text, env) ==
    IF env.fail = "spawn" THEN Ret(r, Err(GitError), <<>>)
    ELSE LET out == git_commit(r, text, env)
         IN  Ret(out.repo,
                 IF out.success THEN OkUnit ELSE Err(GitError),
                 <<"commit">>)

\* GitService::amend_commit
amend_commit(r, text, env) ==
    IF env.fail = "spawn" THEN Ret(r, Err(GitError), <<>>)
    ELSE LET out == git_commit_amend(r, text, env)
         IN  Ret(out.repo,
                 IF out.success THEN OkUnit ELSE Err(GitError),
                 <<"commit --amend">>)

\* GitService::soft_reset_to
soft_reset_to(r, k, env) ==
    IF env.fail = "spawn" THEN Ret(r, Err(GitError), <<>>)
    ELSE LET out == git_reset_soft(r, k, env)
         IN  Ret(out.repo,
                 IF out.success THEN OkUnit ELSE Err(GitError),
                 <<"reset --soft">>)

amend_commit_message_committed_only(r, text, env) ==
    amend_commit([r EXCEPT !.staged = {}], text, env)

\* GitService::amend_commit_message
amend_commit_message(r, new_message, env) ==
    IF env.fail = "spawn" THEN Ret(r, Err(GitError), <<>>)
    ELSE LET out == git_commit_amend(r, new_message, env)
         IN  Ret(out.repo,
                 IF out.success THEN OkUnit ELSE Err(GitError),
                 <<"commit --amend">>)

\* the failure arm of reword_commit: abort on a conflict, else return
on_rebase_failure_keeps_conflict(r, err_text) ==
    IF contains(err_text, "CONFLICT") \/
       contains(err_text, "could not apply")
    THEN Ret(r, Err(RebaseConflict), <<"rebase -i">>)
    ELSE Ret(r, Err(GitError), <<"rebase -i">>)

on_rebase_failure(r, err_text) ==
    IF contains(err_text, "CONFLICT") \/
       contains(err_text, "could not apply")
    THEN Ret(git_rebase_abort(r), Err(RebaseConflict),
             <<"rebase -i", "rebase --abort">>)
    ELSE Ret(r, Err(GitError), <<"rebase -i">>)

\* GitService::reword_commit
reword_commit(r, n, new_message, plat, env) ==
    IF n = 0 THEN Ret(r, Err(InvalidRewordTarget), <<>>)
    ELSE IF n = 1 THEN amend_commit_message(r, new_message, env)
    ELSE LET merges == has_merge_commits_in_range(r, n)
         IN  IF merges.kind = "Err" THEN Ret(r, merges, <<>>)
             ELSE IF merges.value THEN Ret(r, Err(HasMergeCommits), <<>>)
             ELSE IF env.fail = "write" THEN Ret(r, Err(GitError), <<>>)
             ELSE LET written == [r EXCEPT !.msg_file = Some(new_message)]
                  IN  IF env.fail = "spawn"
                      THEN Ret(written, Err(GitError), <<>>)
                      ELSE LET output == git_rebase_i(written, n, plat, env)
                               removed == [output.repo EXCEPT
                                              !.msg_file = None]
                           IN  IF ~output.success
                               THEN on_rebase_failure(removed, output.stderr)
                               ELSE Ret(removed, OkUnit, <<"rebase -i">>)

(***************************************************************************)
(* Spec: one invocation of the program, main -> App::new -> App::run.      *)
(***************************************************************************)
ConfigError == [kind |-> "ConfigError"]
NotGitRepository == [kind |-> "NotGitRepository"]
NoChanges == [kind |-> "NoChanges"]
NoStagedChanges == [kind |-> "NoStagedChanges"]
UserCancelled == [kind |-> "UserCancelled"]
NoCommitsToSquash == [kind |-> "NoCommitsToSquash"]
OnBaseBranch == [kind |-> "OnBaseBranch"]
ConflictingOptions(flag) == [kind |-> "ConflictingOptions", flag |-> flag]

\* the provider list and the window of the configuration the program runs
\* under
AppConfigured == {<<"gemini", "codex">>}

\* the machines the program is run on, as the sets of provider commands
\* `which` finds: none, or codex alone
InstalledSets == {{}, {"codex"}}

\* the position of the first provider of the list found installed, 0 if none
first_installed(list, installed) ==
    IF \E i \in DOMAIN list : list[i] \in installed
    THEN CHOOSE i \in DOMAIN list :
            /\ list[i] \in installed
            /\ \A j \in 1..(i - 1) : list[j] \notin installed
    ELSE 0
AppWindows == {CooldownMinutes}

\* the workflow App::run dispatches to
Go(workflow) == [kind |-> "Go", to |-> workflow]
dispatch_amend_first(c) ==
    IF c.generate_for # None
    THEN IF c.amend THEN Err(ConflictingOptions("amend"))
         ELSE IF c.reword # None THEN Err(ConflictingOptions("reword"))
         ELSE IF c.squash # None THEN Err(ConflictingOptions("squash"))
         ELSE Go("run_generate_for")
    ELSE IF c.reword # None THEN Go("run_reword")
    ELSE IF c.amend THEN Go("run_amend")
    ELSE IF c.squash # None THEN Go("run_squash")
    ELSE Go("run_commit")

\* the exclusion checks of --generate-for, then the dispatch, of App::run
dispatch(c) ==
    IF c.generate_for # None
    THEN IF c.reword # None THEN Err(ConflictingOptions("reword"))
         ELSE IF c.amend THEN Err(ConflictingOptions("amend"))
         ELSE IF c.squash # None THEN Err(ConflictingOptions("squash"))
         ELSE Go("run_generate_for")
    ELSE IF c.reword # None THEN Go("run_reword")
    ELSE IF c.amend THEN Go("run_amend")
    ELSE IF c.squash # None THEN Go("run_squash")
    ELSE Go("run_commit")

\* longest list of hashes given to --generate-for
MaxHashes == 2

\* what may be given to --generate-for: the hashes of the first and the
\* second commit, and two strings that resolve to nothing
Hashes == {"c1", "c2", "bad", "worse"}
HashLists == SeqUpTo(Hashes, MaxHashes) \ {<<>>}

\* the command lines enumerated.  One of --reword N, --amend, --squash BASE
\* or none of them (a normal commit), with and without --dry-run and --yes;
\* the normal commit also with --all, the other three with --all beside
\* --dry-run --yes; --generate-for with each list of hashes, alone and
\* beside --dry-run --yes --all; --generate-for beside every choice of
\* --reword, --amend and --squash.
Cli(g, n, a, b, d, y, s) ==
    [generate_for |-> g, reword |-> n, amend |-> a, squash |-> b,
     dry_run |-> d, auto_confirm |-> y, stage_all |-> s]
Workflows ==
    {<<Some(n), FALSE, None>> : n \in 0..MaxN}
        \cup {<<None, TRUE, None>>}
        \cup {<<None, FALSE, Some(b)>> : b \in {"main", "nope"}}
CliArgs ==
    {Cli(None, w[1], w[2], w[3], d, y, FALSE) :
        w \in Workflows, d \in BOOLEAN, y \in BOOLEAN}
    \cup {Cli(None, w[1], w[2], w[3], TRUE, TRUE, TRUE) : w \in Workflows}
    \cup {Cli(None, None, FALSE, None, d, y, s) :
            d \in BOOLEAN, y \in BOOLEAN, s \in BOOLEAN}
    \cup {Cli(Some(hs), None, FALSE, None, f, f, f) :
            hs \in HashLists, f \in BOOLEAN}
    \cup ({Cli(Some(<<"c1">>), n, a, b, FALSE, FALSE, FALSE) :
            n \in {None, Some(1)}, a \in BOOLEAN,
            b \in {None, Some("main")}}
          \ {Cli(Some(<<"c1">>), None, FALSE, None, FALSE, FALSE, FALSE)})

\* the repositories enumerated.  Under --reword and --amend: any history,
\* a clean or dirty index and working tree, HEAD on main.  Under --squash:
\* any history, a clean or dirty index, HEAD on main, detached, or on a
\* feature branch that left main after base_at commits (0: no common one).
\* For a normal commit: no or one commit, nothing, a text change or a
\* binary file staged, the working tree clean or edited.  Under
\* --generate-for: two commits, each a small text change, a binary file or
\* a large text change.
StagedChange == [id |-> 0, kind |-> "text"]
\* an edit of the working tree that is not staged
Edit == [id |-> MaxCommits + 1, kind |-> "text"]
Repo(h, s, u, b, k) ==
    [head |-> h, tip |-> h, staged |-> s, unstaged |-> u, rebasing |-> FALSE,
     branch |-> b, base_at |-> k, msg_file |-> None, ignore |-> None]
RewordRepos ==
    { Repo(h, s, u, Some("main"), Len(h)) :
        h \in Histories, s \in {{}, {StagedChange}}, u \in {{}, {Edit}} }
SquashRepos ==
    UNION { { Repo(h, s, {}, Some("main"), Len(h)),
              Repo(h, s, {}, None, Len(h)) }
            \cup { Repo(h, s, {}, Some("feature"), k) : k \in 0..Len(h) } :
            h \in Histories, s \in {{}, {StagedChange}} }
CommitRepos ==
    { Repo(h, s, u, Some("main"), Len(h)) :
        h \in {<<>>, <<Plain(1)>>},
        s \in {{}, {StagedChange}, {BinaryChange(0)}},
        u \in {{}, {Edit}} }
LargeChange(i) == [id |-> i, kind |-> "large"]
GenerateRepos ==
    { Repo(<<[msg |-> OldMessage, diff |-> {c1}, merge |-> FALSE],
             [msg |-> OldMessage, diff |-> {c2}, merge |-> FALSE]>>,
           {}, {}, Some("main"), 2) :
        c1 \in {TextChange(1), BinaryChange(1), LargeChange(1)},
        c2 \in {TextChange(2), BinaryChange(2), LargeChange(2)} }
ReposFor(c) ==
    (IF c.generate_for # None
     THEN IF dispatch(c).kind = "Go" THEN GenerateRepos
          ELSE {Repo(<<Plain(1)>>, {StagedChange}, {Edit}, Some("main"), 1)}
     ELSE IF c.squash # None THEN SquashRepos
     ELSE IF c.reword # None \/ c.amend THEN RewordRepos
     ELSE CommitRepos) \cup {None}

\* the lines read from standard input at the confirmation prompt
Answers == {<<"\n">>, <<"Y", "\n">>, <<"y", "e", "s", "\n">>, <<"n", "\n">>}

\* char::to_lowercase on the characters of an answer
lower(c) == IF c = "Y" THEN "y" ELSE IF c = "N" THEN "n" ELSE c

\* a prompt that takes the answer n for a yes as well
confirm_prompt_takes_n(line) ==
    LET input == [i \in DOMAIN trim(line) |-> lower(trim(line)[i])]
    IN  input = <<>> \/ input = <<"y">> \/ input = <<"y", "e", "s">>
            \/ input = <<"n">>

\* App::confirm_prompt on the line read
confirm_prompt(line) ==
    LET input == [i \in DOMAIN trim(line) |-> lower(trim(line)[i])]
    IN  input = <<>> \/ input = <<"y">> \/ input = <<"y", "e", "s">>

Init ==
    /\ now = 0
    /\ st = EmptyStore
    /\ op = NoOp
    /\ stdin = None
    /\ inv = None
    /\ AiIdle
    /\ cli \in CliArgs
    /\ platform = "unknown"
    /\ repo \in ReposFor(cli)
    /\ repo0 = repo
    /\ prefix_mode = None
    /\ merge_base = 0
    /\ request = None
    /\ message = <<>>
    /\ exit = None
    /\ git_log = <<>>
    /\ diff = <<>>
    /\ IoIdle
    /\ FnIdle

\* the frame of a step of the program on what only the engine, the
\* filters' and the resolver's own specifications move
UntouchedButStdin ==
    UNCHANGED <<now, apiVars, inv, file, config_providers, cooldown_minutes,
                providers, idx, pending, last_error, result, calls,
                last_call, failed, expired, io_ok, cli, repo0, fnVars>>

Untouched == UntouchedButStdin /\ UNCHANGED stdin

\* main's exit code for what App::new or App::run returned
exit_code_one_unless_ok(value) == IF value = OkUnit THEN 0 ELSE 1

exit_code(value) ==
    IF value = OkUnit THEN 0
    ELSE IF value = Err(NotGitRepository) THEN 0
    ELSE 1

\* main writes the line `Error: <e>` for every Err but NotGitRepository
error_line(value) == value # OkUnit /\ value # Err(NotGitRepository)

\* App::new or App::run returns value to main: the process is over
Return_(value) ==
    /\ pc' = "exit"
    /\ exit' = value
    /\ stderr' = IF error_line(value) /\ value.kind = "Err"
                 THEN println(stderr, Progress("Error:")) ELSE stderr
    /\ code' = Some(exit_code(value))

\* main: App::new fails in Config::load
AppNewConfigError ==
    /\ pc = "new"
    /\ Return_(Err(ConfigError))
    /\ UNCHANGED <<which, platform, repo, prefix_mode, merge_base, request,
                   message, git_log, diff, stdout>>
    /\ Untouched

\* main: App::new, Config::load then AiService::from_config
AppNew == FromConfigWith(AppConfigured, AppWindows)

\* App::run up to the dispatch: verify_repository, verify_installation
\* (which asks `which` for the providers in order up to the first one
\* installed), the exclusion checks of --generate-for
Run ==
    /\ pc = "ready"
    /\ IF repo = None
       THEN Return_(Err(NotGitRepository)) /\ UNCHANGED which
       ELSE \E installed \in InstalledSets :
            LET found == first_installed(providers, installed)
                asked == IF found = 0 THEN Len(providers) ELSE found
            IN  /\ which' = [p \in {providers[i] : i \in 1..asked} |->
                                p \in installed]
                /\ IF found = 0
                   THEN Return_(Err(NoAiProviderInstalled))
                   ELSE IF dispatch(cli).kind = "Go"
                   THEN /\ pc' = dispatch(cli).to
                        /\ UNCHANGED <<exit, stderr, code>>
                   ELSE Return_(dispatch(cli))
    /\ UNCHANGED <<platform, repo, prefix_mode, merge_base, request, message,
                   git_log, diff, stdout>>
    /\ Untouched

\* the frame of a workflow step that goes on to generate the message from
\* the diff d
GoGenerate(mode, k, d, args) ==
    /\ pc' = "generate"
    /\ prefix_mode' = mode
    /\ merge_base' = k
    /\ request' = args
    /\ diff' = d
    /\ UNCHANGED <<exit, stderr, code>>

\* the frame of a workflow step that returns before generating
ReturnEarly(value) ==
    /\ Return_(value)
    /\ UNCHANGED <<prefix_mode, merge_base, request, diff>>

\* App::get_prefix_mode under one of the setups: the mode, and the lines
\* it writes
PrefixModes(r) ==
    {[mode |-> get_prefix_mode_internal(s.remote_url, get_current_branch(r),
                                        s.scripts, s.rules),
      lines |-> prefix_lines(s.remote_url, get_current_branch(r),
                             s.scripts, s.rules)] : s \in PrefixSetups}

\* what a workflow writes between its diff and the call of
\* generate_commit_message: the lines of get_prefix_mode, the recent
\* commits in Auto mode (recent says whether the workflow shows them), and
\* that the message is being generated
announce(out, m, recent) ==
    println(IF recent /\ m.mode = Auto
            THEN println(out \o m.lines, Progress("Recent commits"))
            ELSE out \o m.lines,
            Progress("Generating commit message..."))

\* GitService::get_recent_commits(count): the subjects of the count newest
\* commits, the newest first
get_recent_commits(r, count) ==
    LET n == Len(r.head)
        m == IF n < count THEN n ELSE count
    IN  [i \in 1..m |-> Head(lines_of(r.head[n - i + 1].msg))]

\* Iterator::skip(n).collect()
skip(s, n) == SubSeq(s, n + 1, Len(s))

\* the recent_commits and the prefix_type that run, run_amend, run_reword
\* and run_generate_for give to the generation under the mode
generate_args(mode, recent_commits) ==
    IF mode.kind = "Script"
    THEN [recent_commits |-> <<>>, prefix_type |-> Some("plain")]
    ELSE IF mode.kind = "Rule"
    THEN [recent_commits |-> recent_commits,
          prefix_type |-> Some(mode.prefix_type)]
    ELSE [recent_commits |-> recent_commits, prefix_type |-> None]

\* a squash that leaves the format to the generation in Auto mode
squash_generate_args_auto_none(mode) ==
    [recent_commits |-> <<>>,
     prefix_type |-> IF mode.kind = "Script" THEN Some("plain")
                     ELSE IF mode.kind = "Rule" THEN Some(mode.prefix_type)
                     ELSE None]

\* the recent_commits and the prefix_type that run_squash gives to the
\* generation under the mode
squash_generate_args(mode) ==
    [recent_commits |-> <<>>,
     prefix_type |-> IF mode.kind = "Script" THEN Some("plain")
                     ELSE IF mode.kind = "Rule" THEN Some(mode.prefix_type)
                     ELSE Some("conventional")]

\* App::run after the dispatch: the normal commit up to the call of
\* generate_commit_message
RunCommit ==
    /\ pc = "run_commit"
    /\ LET added == IF cli.stage_all THEN stage_all(repo)
                    ELSE Ret(repo, OkUnit, <<>>)
           out == IF cli.stage_all
                  THEN println(stdout, Progress("Staging all changes..."))
                  ELSE stdout
           staged_diff == get_staged_diff(added.repo)
       IN  /\ repo' = added.repo
           /\ git_log' = git_log \o added.log
           /\ IF ~is_blank(staged_diff)
              THEN \E m \in PrefixModes(added.repo) :
                    /\ GoGenerate(m.mode, 0, staged_diff,
                           generate_args(m.mode,
                               get_recent_commits(added.repo, 5)))
                    /\ stdout' = announce(out, m, TRUE)
              ELSE IF cli.stage_all
              THEN /\ ReturnEarly(OkUnit)
                   /\ stdout' = println(out, Progress("no changes"))
              ELSE /\ ReturnEarly(Err(NoStagedChanges))
                   /\ stdout' = out
    /\ UNCHANGED <<which, platform, message>>
    /\ Untouched

\* App::run_reword up to the call of generate_commit_message
RunReword ==
    /\ pc = "run_reword"
    /\ LET n == cli.reword.value
           merges == has_merge_commits_in_range(repo, n)
           d == get_commit_diff_at(repo, n)
           out1 == println(stdout, Progress("Reword mode"))
           out2 == println(out1, Progress("Current commit message:"))
       IN  IF n = 0
           THEN ReturnEarly(Err(InvalidRewordTarget)) /\ UNCHANGED stdout
           ELSE IF merges.kind = "Err"
           THEN ReturnEarly(merges) /\ stdout' = out1
           ELSE IF merges.value
           THEN ReturnEarly(Err(HasMergeCommits)) /\ stdout' = out1
           ELSE IF d.kind = "Err" THEN ReturnEarly(d) /\ stdout' = out1
           ELSE IF is_blank(d.value)
           THEN ReturnEarly(Err(NoChanges)) /\ stdout' = out1
           ELSE \E m \in PrefixModes(repo) :
                    /\ GoGenerate(m.mode, 0, d.value,
                           generate_args(m.mode,
                               skip(get_recent_commits(repo, 5 + n), n)))
                    /\ stdout' = announce(out2, m, TRUE)
    /\ UNCHANGED <<which, platform, repo, message, git_log>>
    /\ Untouched

\* App::run_amend up to the call of generate_commit_message
RunAmend ==
    /\ pc = "run_amend"
    /\ LET d == get_last_commit_diff(repo)
           out1 == println(stdout, Progress("Amend mode"))
       IN  IF d.kind = "Err" THEN ReturnEarly(d) /\ stdout' = out1
           ELSE IF is_blank(d.value)
           THEN ReturnEarly(Err(NoChanges)) /\ stdout' = out1
           ELSE \E m \in PrefixModes(repo) :
                    /\ GoGenerate(m.mode, 0, d.value,
                           generate_args(m.mode,
                               skip(get_recent_commits(repo, 6), 1)))
                    /\ stdout' = announce(out1, m, TRUE)
    /\ UNCHANGED <<which, platform, repo, message, git_log>>
    /\ Untouched

\* App::run_squash up to the call of generate_commit_message
RunSquash ==
    /\ pc = "run_squash"
    /\ LET base_branch == cli.squash.value
           current_branch == get_current_branch(repo)
           base == get_merge_base(repo)
           out1 == println(stdout, Progress("Squash mode"))
           out2 == println(out1, Progress("Base branch:"))
           out3 == println(out2, Progress("Commits to squash:"))
       IN  IF ~branch_exists(repo, base_branch)
           THEN ReturnEarly(Err(GitError)) /\ UNCHANGED stdout
           ELSE IF current_branch = None
           THEN ReturnEarly(Err(GitError)) /\ stdout' = out1
           ELSE IF current_branch.value = base_branch
           THEN ReturnEarly(Err(OnBaseBranch)) /\ stdout' = out1
           ELSE IF base.kind = "Err"
           THEN ReturnEarly(base) /\ stdout' = out2
           ELSE IF count_commits_from_base(repo, base.value) = 0
           THEN ReturnEarly(Err(NoCommitsToSquash)) /\ stdout' = out2
           ELSE IF is_blank(get_diff_from_base(repo, base.value))
           THEN ReturnEarly(Err(NoChanges)) /\ stdout' = out3
           ELSE \E m \in PrefixModes(repo) :
                    /\ GoGenerate(m.mode, base.value,
                                  get_diff_from_base(repo, base.value),
                                  squash_generate_args(m.mode))
                    /\ stdout' = announce(out3, m, FALSE)
    /\ UNCHANGED <<which, platform, repo, message, git_log>>
    /\ Untouched

\* the loop of App::run_generate_for over the hashes: each commit's
\* filtered diff, when not blank, is pushed onto combined_diff after a
\* newline (none before the first); the first hash that does not resolve
\* ends it.  A text being its pieces between newlines, pushing a newline
\* and then a text is the concatenation of the pieces.
RECURSIVE combine(_, _, _)
combine(r, hashes, combined_diff) ==
    IF hashes = <<>> THEN [kind |-> "Ok", value |-> combined_diff]
    ELSE LET d == get_commit_diff_by_hash(r, Head(hashes))
         IN  IF d.kind = "Err" THEN d
             ELSE IF is_blank(d.value)
             THEN combine(r, Tail(hashes), combined_diff)
             ELSE IF combined_diff = <<EmptyLine>>
             THEN combine(r, Tail(hashes), d.value)
             ELSE combine(r, Tail(hashes), combined_diff \o d.value)

\* App::run_generate_for up to the call of generate_commit_message_silent
RunGenerateFor ==
    /\ pc = "run_generate_for"
    /\ LET hashes == cli.generate_for.value
           combined_diff == combine(repo, hashes, <<EmptyLine>>)
       IN  IF hashes = <<>>
           THEN ReturnEarly(Err(InvalidCommitHash("(empty)")))
           ELSE IF combined_diff.kind = "Err" THEN ReturnEarly(combined_diff)
           ELSE IF is_blank(combined_diff.value)
           THEN ReturnEarly(Err(NoChanges))
           ELSE \E m \in PrefixModes(repo) :
                    GoGenerate(m.mode, 0, combined_diff.value,
                               generate_args(m.mode,
                                   get_recent_commits(repo, 5)))
    /\ UNCHANGED <<which, platform, repo, message, git_log, stdout>>
    /\ Untouched

\* the workflow's call of AiService::generate_commit_message
AppGenerate == GenerateAt("generate")

\* the frame of the steps after the generation
AfterGenerate ==
    /\ UNCHANGED <<which, prefix_mode, merge_base, request, diff>>
    /\ UntouchedButStdin

\* generate_commit_message(..)? returned Err: the workflow returns it
Propagate ==
    /\ pc = "done"
    /\ result.kind = "Err"
    /\ Return_(Err(result.error))
    /\ UNCHANGED <<platform, repo, message, git_log, stdout>>
    /\ UNCHANGED stdin
    /\ AfterGenerate

\* the workflow is one of those that show the message and go on to change
\* the history
Mutating == dispatch(cli) # Go("run_generate_for")

\* the lines a workflow writes once it has the message: what was done about
\* the prefix in Script mode, and the message between two rules
shown(out, mode, text) ==
    println(IF mode.kind = "Script" THEN println(out, Progress("prefix"))
            ELSE out,
            Shown(text))

\* run_generate_for: the message alone is written to standard output
GenerateForDone ==
    /\ pc = "done"
    /\ result.kind = "Ok"
    /\ ~Mutating
    /\ message' = post_process(prefix_mode, result.message)
    /\ stdout' = println(stdout, Shown(message'))
    /\ Return_(OkUnit)
    /\ UNCHANGED <<platform, repo, git_log>>
    /\ UNCHANGED stdin
    /\ AfterGenerate

\* the message is shown; --dry-run returns here
DryRun ==
    /\ pc = "done"
    /\ result.kind = "Ok"
    /\ Mutating
    /\ cli.dry_run
    /\ message' = post_process(prefix_mode, result.message)
    /\ stdout' = println(shown(stdout, prefix_mode, message'),
                         Progress("Dry run mode"))
    /\ Return_(OkUnit)
    /\ UNCHANGED <<platform, repo, git_log>>
    /\ UNCHANGED stdin
    /\ AfterGenerate

\* the confirmation is asked for (without --yes) and refused
Cancel ==
    /\ pc = "done"
    /\ result.kind = "Ok"
    /\ Mutating
    /\ ~cli.dry_run
    /\ ~cli.auto_confirm
    /\ \E line \in Answers :
        /\ ~confirm_prompt(line)
        /\ stdin' = Some(line)
    /\ message' = post_process(prefix_mode, result.message)
    /\ stdout' = println(println(shown(stdout, prefix_mode, message'),
                                 Progress("[Y/n]")),
                         Progress("cancelled."))
    /\ Return_(Err(UserCancelled))
    /\ UNCHANGED <<platform, repo, git_log>>
    /\ AfterGenerate

\* cli.auto_confirm || self.confirm_..()?
Confirmed ==
    /\ pc = "done"
    /\ result.kind = "Ok"
    /\ ~cli.dry_run
    /\ IF cli.auto_confirm THEN stdin' = stdin
       ELSE \E line \in Answers :
               /\ confirm_prompt(line)
               /\ stdin' = Some(line)

\* what a workflow has written when the change it made returned res
applied(out, mode, text, res) ==
    LET asked == IF cli.auto_confirm THEN shown(out, mode, text)
                 ELSE println(shown(out, mode, text), Progress("[Y/n]"))
    IN  IF res = OkUnit THEN println(asked, Progress("successfully"))
        ELSE asked

\* App::run: self.git.commit(&message)?
CommitApply ==
    /\ Confirmed
    /\ dispatch(cli) = Go("run_commit")
    /\ message' = post_process(prefix_mode, result.message)
    /\ \E env \in Faults(0) :
        LET out == commit(repo, message', env)
        IN  /\ repo' = out.repo
            /\ git_log' = git_log \o out.log
            /\ stdout' = applied(stdout, prefix_mode, message', out.result)
            /\ Return_(out.result)
    /\ UNCHANGED platform
    /\ AfterGenerate

\* App::run_reword: self.git.reword_commit(n, &message)?
RewordApply ==
    /\ Confirmed
    /\ dispatch(cli) = Go("run_reword")
    /\ message' = post_process(prefix_mode, result.message)
    /\ \E plat \in {"unix", "windows"}, env \in Faults(cli.reword.value) :
        LET out == reword_commit(repo, cli.reword.value, message', plat,
                                 env)
        IN  /\ platform' = plat
            /\ repo' = out.repo
            /\ git_log' = git_log \o out.log
            /\ stdout' = applied(stdout, prefix_mode, message', out.result)
            /\ Return_(out.result)
    /\ AfterGenerate

\* App::run_amend: self.git.amend_commit(&message)?
AmendApply ==
    /\ Confirmed
    /\ dispatch(cli) = Go("run_amend")
    /\ message' = post_process(prefix_mode, result.message)
    /\ \E env \in Faults(0) :
        LET out == amend_commit(repo, message', env)
        IN  /\ repo' = out.repo
            /\ git_log' = git_log \o out.log
            /\ stdout' = applied(stdout, prefix_mode, message', out.result)
            /\ Return_(out.result)
    /\ UNCHANGED platform
    /\ AfterGenerate

\* App::run_squash: self.git.soft_reset_to(&merge_base)?;
\* self.git.commit(&message)?
SquashApply ==
    /\ Confirmed
    /\ dispatch(cli) = Go("run_squash")
    /\ message' = post_process(prefix_mode, result.message)
    /\ \E env1 \in Faults(0), env2 \in Faults(0) :
        LET reset == soft_reset_to(repo, merge_base, env1)
            out == commit(reset.repo, message', env2)
        IN  IF reset.result.kind = "Err"
            THEN /\ repo' = reset.repo
                 /\ git_log' = git_log \o reset.log
                 /\ stdout' = applied(stdout, prefix_mode, message',
                                      reset.result)
                 /\ Return_(reset.result)
            ELSE /\ repo' = out.repo
                 /\ git_log' = git_log \o reset.log \o out.log
                 /\ stdout' = applied(stdout, prefix_mode, message',
                                      out.result)
                 /\ Return_(out.result)
    /\ UNCHANGED platform
    /\ AfterGenerate

Next ==
    \/ AppNewConfigError
    \/ AppNew
    \/ Run
    \/ RunCommit
    \/ RunReword
    \/ RunAmend
    \/ RunSquash
    \/ RunGenerateFor
    \/ AppGenerate
    \/ SkipNotInstalled
    \/ CallProviderOk
    \/ CallProviderErr
    \/ RecordProviderFailure
    \/ Exhausted
    \/ Propagate
    \/ GenerateForDone
    \/ DryRun
    \/ Cancel
    \/ CommitApply
    \/ RewordApply
    \/ AmendApply
    \/ SquashApply

Spec == Init /\ [][Next]_vars

(***************************************************************************)
(* SpecRewordRace: two invocations on one machine, each in a repository of *)
(* its own, run reword_commit(2, message) side by side.  A step is the     *)
(* write of the message file in the temp directory, the rebase (whose      *)
(* GIT_EDITOR copies that file), or the removal of the file and the        *)
(* return.                                                                 *)
(***************************************************************************)
\* the messages the two invocations reword to
RaceMessages == {<<"a">>, <<"b">>}

\* the N of the two --reword N
RaceN == 2

\* the repository of each: one plain commit below the range, nothing staged
\* or edited
RaceRepo ==
    Repo([i \in 1..(RaceN + 1) |-> Plain(i)], {}, {}, Some("main"), RaceN + 1)

InitRewordRace ==
    /\ now = 0
    /\ st = EmptyStore
    /\ op = NoOp
    /\ stdin = None
    /\ AiIdle
    /\ cli = None
    /\ platform \in {"unix", "windows"}
    /\ repo = None
    /\ repo0 = None
    /\ prefix_mode = None
    /\ merge_base = 0
    /\ request = None
    /\ message = <<>>
    /\ exit = None
    /\ git_log = <<>>
    /\ diff = <<>>
    /\ IoIdle
    /\ FnIdle
    /\ inv \in {[run |-> [p \in Invocations |->
                            [at |-> "start", repo |-> RaceRepo,
                             message |-> m[p], output |-> None,
                             result |-> None]],
                 msg_file |-> None] : m \in [Invocations -> RaceMessages]}

RewordRaceFrame == UNCHANGED <<now, apiVars, stdin, aiVars, appVars, ioVars>>

\* std::fs::write(&msg_file, new_message)?
WriteMsgFile(p) ==
    /\ inv.run[p].at = "start"
    /\ \E written \in BOOLEAN :
        inv' = IF written
               THEN [run |-> [inv.run EXCEPT ![p].at = "written"],
                     msg_file |-> Some(inv.run[p].message)]
               ELSE [run |-> [inv.run EXCEPT ![p].at = "returned",
                                             ![p].result = Err(GitError)],
                     msg_file |-> inv.msg_file]
    /\ RewordRaceFrame

\* `git rebase -i HEAD~n` under the two editors: the GIT_EDITOR copies what
\* the message file holds when it runs; with the file gone the copy fails
\* and the reword step is rejected, as with an empty message
GitRebase(p) ==
    /\ inv.run[p].at = "written"
    /\ \E env \in Faults(RaceN) \ {[fail |-> "write", at |-> 0]} :
        LET found == IF inv.msg_file = None THEN Some(<<>>)
                     ELSE inv.msg_file
            written == [inv.run[p].repo EXCEPT !.msg_file = found]
            output == git_rebase_i(written, RaceN, platform, env)
        IN  inv' = [inv EXCEPT
                      !.run[p].at = "rebased",
                      !.run[p].repo = [output.repo EXCEPT !.msg_file = None],
                      !.run[p].output =
                          IF env.fail = "spawn"
                          THEN [repo |-> inv.run[p].repo, success |-> FALSE,
                                stderr |-> {"spawn"}]
                          ELSE [output EXCEPT
                                  !.repo = [output.repo EXCEPT
                                              !.msg_file = None]]]
    /\ RewordRaceFrame

\* let _ = std::fs::remove_file(&msg_file), and the return: Ok after a
\* rebase that succeeded, else the failure arm
RemoveMsgFile(p) ==
    /\ inv.run[p].at = "rebased"
    /\ LET output == inv.run[p].output
           out == IF "spawn" \in output.stderr
                  THEN Ret(output.repo, Err(GitError), <<>>)
                  ELSE IF ~output.success
                  THEN on_rebase_failure(output.repo, output.stderr)
                  ELSE Ret(output.repo, OkUnit, <<"rebase -i">>)
       IN  inv' = [run |-> [inv.run EXCEPT ![p].at = "returned",
                                           ![p].repo = out.repo,
                                           ![p].result = out.result],
                   msg_file |-> None]
    /\ RewordRaceFrame

NextRewordRace ==
    \/ \E p \in Invocations : WriteMsgFile(p)
    \/ \E p \in Invocations : GitRebase(p)
    \/ \E p \in Invocations : RemoveMsgFile(p)

SpecRewordRace == InitRewordRace /\ [][NextRewordRace]_vars

\* invocation p has returned Ok from reword_commit
Reworded(p) ==
    /\ inv.run[p].at = "returned"
    /\ inv.run[p].result = OkUnit

\* the commit RaceN back in the repository of invocation p
RewordedCommit(p) ==
    inv.run[p].repo.head[Len(inv.run[p].repo.head) - RaceN + 1]

\* C38: after every successful Reword(N>1, m) the reworded commit carries
\* exactly m, also when another invocation rewords at the same time on the
\* same machine.
C38_RewordedCarriesMessage ==
    \A p \in Invocations :
        Reworded(p) => RewordedCommit(p).msg = inv.run[p].message

\* the same for a reword that ran while no other invocation was between
\* the write of its message file and its return
C38_WhenAlone ==
    \A p \in Invocations :
        (Reworded(p) /\ \A q \in Invocations \ {p} : inv.run[q].at = "start")
            => RewordedCommit(p).msg = inv.run[p].message

(***************************************************************************)
(* Claims on the history rewrite workflows.                                *)
(***************************************************************************)
\* the commits HEAD~n..HEAD of r exist and one of them is a merge
MergeInRange(r, n) ==
    /\ n >= 1
    /\ n < Len(r.head)
    /\ \E i \in (Len(r.head) - n + 1)..Len(r.head) : r.head[i].merge

\* the run stands before self.git.reword_commit(n, ..) with n > 1
BeforeReword ==
    /\ pc = "done"
    /\ result.kind = "Ok"
    /\ dispatch(cli) = Go("run_reword")
    /\ cli.reword.value > 1

\* C6: when the scripted rebase of Reword(N>1) reports a conflict (git's
\* stderr carries CONFLICT or "could not apply"), reword_commit aborts the
\* rebase and returns RebaseConflict; afterwards HEAD, the branch, the index
\* and the working tree are what they were before the attempt and no rebase
\* is in progress.
C6_ConflictAbortRestores ==
    /\ BeforeReword =>
          \A plat \in {"unix", "windows"}, env \in Faults(cli.reword.value) :
            LET text == post_process(prefix_mode, result.message)
                written == [repo EXCEPT !.msg_file = Some(text)]
                output == git_rebase_i(written, cli.reword.value, plat, env)
                out == reword_commit(repo, cli.reword.value, text, plat, env)
            IN  ( /\ env.fail \notin {"write", "spawn"}
                  /\ ~output.success
                  /\ \/ "CONFLICT" \in output.stderr
                     \/ "could not apply" \in output.stderr )
                => /\ out.result = Err(RebaseConflict)
                   /\ out.log = <<"rebase -i", "rebase --abort">>
                   /\ out.repo = repo
                   /\ ~out.repo.rebasing
    /\ (pc = "exit" /\ exit = Err(RebaseConflict)) =>
          /\ git_log = <<"rebase -i", "rebase --abort">>
          /\ repo = repo0
          /\ ~repo.rebasing

\* C6 witness: a reword of the commit two back hit a conflict, the rebase
\* was aborted and the repository is as it was
C6_Witness ==
    /\ pc = "exit"
    /\ exit = Err(RebaseConflict)
    /\ cli.reword = Some(2)
    /\ git_log = <<"rebase -i", "rebase --abort">>
    /\ repo = repo0
    /\ ~repo.rebasing

\* C7 as stated: after a Reword(N>1) run that started the rebase, whatever
\* it returned, the repository is not in the middle of a rebase.
C7_NeverLeftMidRebase ==
    (pc = "exit" /\ git_log # <<>> /\ git_log[1] = "rebase -i") =>
        ~repo.rebasing

\* C8: Reword(N) over a range HEAD~N..HEAD that holds a merge commit
\* returns HasMergeCommits from run_reword's first check: no backend has
\* been or is invoked, no rebase or amend is started and the repository is
\* left as it was; reword_commit makes the same check for N > 1.
C8_MergeInRangeRefused ==
    /\ [][(pc = "run_reword" /\ MergeInRange(repo, cli.reword.value)) =>
            /\ pc' = "exit"
            /\ exit' = Err(HasMergeCommits)
            /\ repo' = repo
            /\ git_log' = <<>>
            /\ calls' = {}
            /\ file' = file]_vars
    /\ [](pc = "run_reword" =>
            /\ calls = {} /\ result = None /\ git_log = <<>>
            /\ repo = repo0
            /\ \A n \in 2..MaxN, plat \in {"unix", "windows"} :
               \A env \in Faults(n) :
                 MergeInRange(repo, n) =>
                    reword_commit(repo, n, <<"x">>, plat, env)
                        = Ret(repo, Err(HasMergeCommits), <<>>))

\* C8 witness: --reword 2 on a history whose commit before HEAD is a merge
\* ended with HasMergeCommits and nothing was touched
C8_Witness ==
    /\ pc = "exit"
    /\ exit = Err(HasMergeCommits)
    /\ cli.reword = Some(2)
    /\ Len(repo0.head) = 3
    /\ repo0.head[2].merge
    /\ ~repo0.head[3].merge
    /\ repo = repo0
    /\ calls = {}
    /\ git_log = <<>>

\* run_squash was entered: the run is past App::new and the checks of
\* App::run that come before any workflow
PastPrelude ==
    /\ pc = "exit"
    /\ exit \notin {Err(ConfigError), Err(NotGitRepository),
                    Err(NoAiProviderInstalled)}

\* C9 as stated: a squash against an existing base whose merge-base with
\* HEAD has zero commits up to HEAD ends with NoCommitsToSquash.
C9_ZeroCommitsIsNoCommitsToSquash ==
    ( /\ PastPrelude
      /\ dispatch(cli) = Go("run_squash")
      /\ cli.squash = Some("main")
      /\ repo0.base_at = Len(repo0.head) )
    => exit = Err(NoCommitsToSquash)

\* C9 amended: when HEAD is on a named branch other than the base, the base
\* exists and the merge-base has zero commits up to HEAD, run_squash returns
\* NoCommitsToSquash before any message is generated, and no soft reset and
\* no commit is performed.
C9_NoCommitsToSquash ==
    /\ [][( /\ pc = "run_squash"
            /\ cli.squash = Some("main")
            /\ repo.branch # None
            /\ repo.branch # cli.squash
            /\ repo.base_at = Len(repo.head) )
          => /\ pc' = "exit"
             /\ exit' = Err(NoCommitsToSquash)
             /\ repo' = repo
             /\ git_log' = <<>>
             /\ calls' = {}]_vars
    /\ [](pc = "run_squash" =>
            calls = {} /\ result = None /\ git_log = <<>> /\ repo = repo0)

\* C9 witness: a feature branch that has no commit of its own
C9_Witness ==
    /\ pc = "exit"
    /\ exit = Err(NoCommitsToSquash)
    /\ repo0.branch = Some("feature")
    /\ repo0.base_at = Len(repo0.head)
    /\ repo = repo0
    /\ calls = {}
    /\ git_log = <<>>

\* C10: Reword with N=1 runs one `git commit --amend -m <message>` and no
\* rebase: whatever the environment does to the call, reword_commit(1, m)
\* leaves the repository, the result and the commands that amend_commit(m)
\* leaves.
C10_RewordOneIsAmend ==
    /\ ( /\ pc = "done"
         /\ result.kind = "Ok"
         /\ dispatch(cli) = Go("run_reword")
         /\ cli.reword = Some(1) )
       => \A plat \in {"unix", "windows"}, env \in Faults(1) :
            LET text == post_process(prefix_mode, result.message)
            IN  reword_commit(repo, 1, text, plat, env)
                    = amend_commit(repo, text, env)
    /\ ( /\ pc = "exit"
         /\ dispatch(cli) = Go("run_reword")
         /\ cli.reword = Some(1)
         /\ git_log # <<>> )
       => /\ git_log = <<"commit --amend">>
          /\ ~repo.rebasing
          /\ \E env \in Faults(1) :
                amend_commit(repo0, message, env) = Ret(repo, exit, git_log)
          /\ exit = OkUnit =>
                repo = amend_commit(repo0, message, NoFault).repo

\* C10 witness: --reword 1 with a staged change: HEAD carries the new
\* message and has taken the staged change in, as after an amend
C10_Witness ==
    /\ pc = "exit"
    /\ exit = OkUnit
    /\ cli.reword = Some(1)
    /\ git_log = <<"commit --amend">>
    /\ repo0.staged = {StagedChange}
    /\ repo.staged = {}
    /\ StagedChange \in repo.head[Len(repo.head)].diff
    /\ repo.head[Len(repo.head)].msg = message
    /\ message # OldMessage

\* a Reword(N>1) run has ended in success
RewordDone ==
    /\ pc = "exit"
    /\ exit = OkUnit
    /\ dispatch(cli) = Go("run_reword")
    /\ cli.reword.value > 1

\* the history after a reword of the commit n back that touched that commit
\* alone: it carries the message as git cleans it up and the content it
\* had, every other commit is what it was
OnlyOldestReworded(r0, r, n, text) ==
    LET at == Len(r0.head) - n + 1
    IN  /\ Len(r.head) = Len(r0.head)
        /\ \A i \in 1..Len(r0.head) :
              IF i = at
              THEN r.head[i] = [r0.head[i] EXCEPT !.msg = git_cleanup(text)]
              ELSE r.head[i] = r0.head[i]

\* C35: a successful Reword(N>1) changes the message of the oldest commit
\* of the range HEAD~N..HEAD and of no other: every other commit keeps its
\* message and its content, on every platform.
C35_OnlyOldestOfRange ==
    RewordDone => OnlyOldestReworded(repo0, repo, cli.reword.value, message)

\* the same on the platforms whose sequence editor is sed
C35_OnUnix ==
    (RewordDone /\ platform = "unix") =>
        OnlyOldestReworded(repo0, repo, cli.reword.value, message)

\* C37: a squash is all or nothing: a squash run that ends in an error
\* leaves the branch at the commit it was at before the run, so that the
\* soft reset and the new commit have both taken effect or neither has,
\* also when the commit fails after the reset.
C37_SquashAllOrNothing ==
    /\ ( /\ pc = "exit"
         /\ repo # None
         /\ dispatch(cli) = Go("run_squash")
         /\ exit # OkUnit )
       => /\ repo.head = repo0.head
          /\ repo.tip = repo0.tip
    /\ ( /\ pc = "exit"
         /\ repo # None
         /\ dispatch(cli) = Go("run_squash")
         /\ exit = OkUnit
         /\ git_log # <<>> )
       => /\ git_log = <<"reset --soft", "commit">>
          /\ Len(repo.head) = merge_base + 1

\* the git commands that change the history
HistoryCommands ==
    {"commit", "commit --amend", "rebase -i", "rebase --abort",
     "reset --soft"}

\* the answers that confirm: an empty line, y and yes in any case
Affirmative == {<<"\n">>, <<"Y", "\n">>, <<"y", "e", "s", "\n">>}

C11_DryRunMutatesNothing ==
    (cli.dry_run /\ Mutating) =>
        /\ repo = repo0
        /\ git_log = <<>>
        /\ (pc = "exit" /\ result.kind = "Ok") =>
                /\ exit = OkUnit
                /\ \E i \in DOMAIN stdout : stdout[i] = Shown(message)

\* C12: the workflow of --generate-for is read-only: on every path, ending
\* well or with an error, the repository stays as it was and no git command
\* that commits, amends, rebases, resets or stages is run; standard output
\* stays empty until the run succeeds and then carries the final message and
\* nothing else.
C12_GenerateOnlyReadOnly ==
    dispatch(cli) = Go("run_generate_for") =>
        /\ repo = repo0
        /\ git_log = <<>>
        /\ stdout = IF pc = "exit" /\ exit = OkUnit
                    THEN <<Shown(message)>> ELSE <<>>

\* C12 witness: --generate-for c1 c2 beside --dry-run --yes --all ended
\* well: the progress line of the backend is on standard error, the message
\* alone on standard output
C12_Witness ==
    /\ pc = "exit"
    /\ exit = OkUnit
    /\ cli.generate_for = Some(<<"c1", "c2">>)
    /\ cli.dry_run /\ cli.auto_confirm /\ cli.stage_all
    /\ message # <<>>
    /\ stdout = <<Shown(message)>>
    /\ stderr = <<Progress("Using")>>
    /\ repo = repo0

\* the position in hashes of the first one that names no commit of r, 0 if
\* all of them name one
FirstUnresolved(r, hashes) ==
    IF \E i \in DOMAIN hashes : rev_parse(r, hashes[i]) = 0
    THEN CHOOSE i \in DOMAIN hashes :
            /\ rev_parse(r, hashes[i]) = 0
            /\ \A j \in 1..(i - 1) : rev_parse(r, hashes[j]) # 0
    ELSE 0

\* C13: under --generate-for the hashes are verified one by one in the
\* order given: when one does not resolve, the run ends with
\* InvalidCommitHash carrying the first such hash, and no prefix mode has
\* been determined, no backend called and no message written.
C13_FirstBadHashEndsRun ==
    [][(/\ pc = "run_generate_for"
        /\ FirstUnresolved(repo, cli.generate_for.value) # 0)
       => /\ pc' = "exit"
          /\ exit' = Err(InvalidCommitHash(
                  cli.generate_for.value[
                      FirstUnresolved(repo, cli.generate_for.value)]))
          /\ prefix_mode' = None
          /\ calls' = {}
          /\ result' = None
          /\ message' = <<>>
          /\ stdout' = <<>>
          /\ repo' = repo0]_vars

\* C13 witness: --generate-for c1 bad: the first hash resolves, the second
\* does not and is the one the error carries
C13_Witness ==
    /\ pc = "exit"
    /\ cli.generate_for = Some(<<"c1", "bad">>)
    /\ exit = Err(InvalidCommitHash("bad"))
    /\ calls = {}
    /\ stdout = <<>>

\* the flag --generate-for is refused with: the first of --reword, --amend
\* and --squash that is given beside it
ConflictingFlag(c) ==
    IF c.generate_for = None THEN None
    ELSE IF c.reword # None THEN Some("reword")
    ELSE IF c.amend THEN Some("amend")
    ELSE IF c.squash # None THEN Some("squash")
    ELSE None

\* a provider command was found installed by verify_installation
SomeInstalled == \E p \in DOMAIN which : which[p]

\* C14 as stated: whenever --generate-for is given beside --reword, --amend
\* or --squash the run fails with ConflictingOptions naming the flag
\* (reword before amend before squash); no diff is read, no message is
\* generated and nothing is changed.
C14_ConflictAlwaysReported ==
    (pc = "exit" /\ ConflictingFlag(cli) # None) =>
        /\ exit = Err(ConflictingOptions(ConflictingFlag(cli).value))
        /\ diff = <<>>
        /\ result = None
        /\ repo = repo0

\* C14 amended: in a git repository, the configuration read and a backend
\* installed, a run with --generate-for beside --reword, --amend or --squash
\* fails with ConflictingOptions naming the flag (reword before amend before
\* squash); otherwise it ends on ConfigError, NotGitRepository or
\* NoAiProviderInstalled.  In every case no diff is read, no message is
\* generated and nothing is changed.
C14_ConflictingOptions ==
    ConflictingFlag(cli) # None =>
        /\ diff = <<>>
        /\ prefix_mode = None
        /\ result = None
        /\ calls = {}
        /\ message = <<>>
        /\ stdout = <<>>
        /\ repo = repo0
        /\ git_log = <<>>
        /\ pc \in {"new", "ready", "exit"}
        /\ pc = "exit" =>
            IF SomeInstalled
            THEN exit = Err(ConflictingOptions(ConflictingFlag(cli).value))
            ELSE exit \in {Err(ConfigError), Err(NotGitRepository),
                           Err(NoAiProviderInstalled)}

\* C14 witness: --generate-for beside all of --reword, --amend and --squash
\* in a repository with staged and unstaged changes: reword is reported
C14_Witness ==
    /\ pc = "exit"
    /\ cli.generate_for # None
    /\ cli.reword # None /\ cli.amend /\ cli.squash # None
    /\ exit = Err(ConflictingOptions("reword"))
    /\ repo # None
    /\ repo.staged # {}

\* the lines of err that are main's `Error: ...`
ErrorLines(err) == {i \in DOMAIN err : err[i] = Progress("Error:")}

\* C15 as stated: the exit code is 0 exactly when the workflow succeeded or
\* the directory is not a git repository, and there nothing is printed;
\* every other error prints one error line on standard error and the exit
\* code is not 0.
C15_ZeroIffOkOrNotRepository ==
    pc = "exit" =>
        /\ code = Some(0) <=> (exit = OkUnit \/ repo0 = None)
        /\ repo0 = None => (stdout = <<>> /\ stderr = <<>>)
        /\ code # Some(0) => Cardinality(ErrorLines(stderr)) = 1

\* C15 amended: the exit code is 0 exactly when App::run returned Ok or
\* NotGitRepository, which it returns exactly when the configuration could
\* be read and the directory is not a git repository; then standard output
\* is empty and standard error holds at most the warning of a syntax error
\* in the configuration.  Every other error, a configuration that cannot
\* be read (in or outside a repository) and a cancellation included,
\* writes one `Error:` line, the last of standard error, and exits with 1.
C15_ExitCode ==
    pc = "exit" =>
        /\ code = Some(0) <=> (exit = OkUnit \/ exit = Err(NotGitRepository))
        /\ repo0 = None =>
                exit \in {Err(ConfigError), Err(NotGitRepository)}
        /\ exit = Err(NotGitRepository) =>
                /\ repo0 = None
                /\ stdout = <<>>
                /\ stderr \in {<<>>, <<Progress("syntax error")>>}
        /\ code = Some(0) => ErrorLines(stderr) = {}
        /\ code # Some(0) =>
                /\ code = Some(1)
                /\ ErrorLines(stderr) = {Len(stderr)}

\* C15 witness: a confirmation refused: UserCancelled, one error line, exit
\* code 1
C15_Witness ==
    /\ pc = "exit"
    /\ exit = Err(UserCancelled)
    /\ code = Some(1)
    /\ ErrorLines(stderr) = {Len(stderr)}

\* C19: in every workflow the diff handed to generate_commit_message is
\* bounded: at most MAX_DIFF_CHARS characters of diff and, after a blank
\* line, one truncation notice.
C19_DiffBounded ==
    pc \in {"generate", "loop", "failed", "done"} =>
        /\ chars_count(diff) <= MAX_DIFF_CHARS + 2 + NoticeChars
        /\ Cardinality({i \in DOMAIN diff : diff[i] = Notice}) <= 1


(***************************************************************************)
(* Claims on the message and on what the generation is given.              *)
(***************************************************************************)
\* C27: once a workflow has its message, it is the text the fallback
\* engine returned, changed only under Script(Prefix), where the prefix
\* replaces the type prefix, and under Script(Empty), where the type prefix
\* is taken off: under Script(Failed), Rule and Auto it is the engine's
\* text itself.
C27_OnlyPrefixAndEmptyChange ==
    (pc = "exit" /\ result.kind = "Ok") =>
        IF prefix_mode.kind = "Script" /\ prefix_mode.result.kind = "Prefix"
        THEN message = apply_prefix(result.message, prefix_mode.result.prefix)
        ELSE IF prefix_mode.kind = "Script"
                /\ prefix_mode.result.kind = "Empty"
        THEN message = strip_type_prefix(result.message)
        ELSE /\ prefix_mode \in {Script(Failed), Rule("emoji"),
                                 Rule("conventional"), Auto}
             /\ message = result.message

\* C27 witness: a commit made under a script that failed: the message
\* "f: x" of the engine is the one committed
C27_Witness ==
    /\ pc = "exit"
    /\ exit = OkUnit
    /\ dispatch(cli) = Go("run_commit")
    /\ ~cli.dry_run
    /\ prefix_mode = Script(Failed)
    /\ result.kind = "Ok"
    /\ result.message = <<"f", ":", " ", "x">>
    /\ message = <<"f", ":", " ", "x">>
    /\ repo.head # <<>>
    /\ repo.head[Len(repo.head)].msg = <<"f", ":", " ", "x">>

\* C28: the message a workflow ends up with, which it hands to the commit,
\* amend, reword or squash or prints, is never empty.
C28_MessageNeverEmpty ==
    (pc = "exit" /\ result.kind = "Ok") => message # <<>>

\* C30: run_squash gives the generation no recent commit subjects and, in
\* Auto mode, the prefix type "conventional"; the other workflows give it,
\* in Auto mode, no prefix type and the subjects of the commits below the
\* one they work on, the newest first.
C30_GenerationArguments ==
    request # None =>
        IF dispatch(cli) = Go("run_squash")
        THEN /\ request.recent_commits = <<>>
             /\ prefix_mode = Auto =>
                    request.prefix_type = Some("conventional")
        ELSE prefix_mode = Auto =>
                LET h == repo0.head
                    k == IF cli.amend THEN 1
                         ELSE IF cli.reword # None THEN cli.reword.value
                         ELSE 0
                    n == IF Len(h) > k THEN Len(h) - k ELSE 0
                IN  /\ request.prefix_type = None
                    /\ request.recent_commits =
                          [i \in 1..n |-> h[n - i + 1].msg]

\* C30 witness: a squash of a branch with commits, in Auto mode, that went
\* through: the generation was given no subjects and "conventional"
C30_Witness ==
    /\ pc = "exit"
    /\ exit = OkUnit
    /\ dispatch(cli) = Go("run_squash")
    /\ prefix_mode = Auto
    /\ Len(repo0.head) >= 2
    /\ request = [recent_commits |-> <<>>,
                  prefix_type |-> Some("conventional")]

====
